---- MODULE Spec2Model ----
(***************************************************************************)
(* data-canary: the reconciliation-and-transform core, the contract and    *)
(* its persistence.                                                        *)
(*                                                                         *)
(*   build_physical_schema     (core/contract_builder.py)                  *)
(*   apply_schema_transform    (core/contract_builder.py)                  *)
(*   create_metadata_contract  (core/contract_builder.py)                  *)
(*   validate_contract         (core/contract_builder.py)                  *)
(*   save_metadata_contract    (core/export.py)                            *)
(*   load_metadata_contract    (core/export.py)                            *)
(*   PhysicalColumn, ColumnRole, MetadataContract (schemas/data_models.py) *)
(*   get_columns_stats         (core/basic_profiler.py)                    *)
(*                                                                         *)
(* Python values: a dict is a function whose DOMAIN is its key set, a list *)
(* is a sequence, a str is a string, None is the string None below (for    *)
(* str-or-None values) or the record NoneObj (for object-or-None values).  *)
(* A call either returns a value or raises: both are Outcome records.      *)
(***************************************************************************)
EXTENDS Integers, Sequences, FiniteSets, TLC

\* ------------------------------------------------------------------------
\* Python conventions
\* ------------------------------------------------------------------------
None == "<None>"

NoneObj == [none |-> TRUE]

IsNone(obj) == "none" \in DOMAIN obj

\* truthiness of a str-or-None value: None and "" are falsy
IsTruthy(v) == v # None /\ v # ""

\* `a or b` on str-or-None values
Or(a, b) == IF IsTruthy(a) THEN a ELSE b

\* dict.get(key, default)
Get(d, key, default) == IF key \in DOMAIN d THEN d[key] ELSE default

EmptyDict == << >>

Return(v) == [kind |-> "return", value |-> v, error |-> ""]

Raise(e) == [kind |-> "raise", value |-> << >>, error |-> e]

NotCalled == [kind |-> "not_called", value |-> << >>, error |-> ""]

\* ------------------------------------------------------------------------
\* schemas/data_models.py: PhysicalColumn
\* ------------------------------------------------------------------------
\* fields declared without a default: the constructor requires them
PhysicalColumnRequired ==
    {"source_name", "target_name", "source_type", "target_type",
     "is_nullable", "column_index"}

\* the required fields declared `str` (None is rejected)
PhysicalColumnStrFields ==
    {"source_name", "target_name", "source_type", "target_type"}

\* fields declared Optional[str] with default None
PhysicalColumnOptional ==
    {"role", "ai_suggested_name", "user_override_name",
     "ai_suggested_type", "user_override_type"}

\* PhysicalColumn(**kwargs): keyword arguments that are not declared fields
\* are ignored, a required field that is missing or None is a validation
\* error, an optional field that is missing takes its default.
PhysicalColumn(kwargs) ==
    IF /\ PhysicalColumnRequired \subseteq DOMAIN kwargs
       /\ \A f \in PhysicalColumnStrFields : kwargs[f] # None
    THEN Return([f \in PhysicalColumnRequired \cup PhysicalColumnOptional |->
                    Get(kwargs, f, None)])
    ELSE Raise("ValidationError: PhysicalColumn field required")

\* ------------------------------------------------------------------------
\* core/basic_profiler.py: get_columns_stats
\* ------------------------------------------------------------------------
\* null_ratio is float(null_count / row_count): kept exact as the pair
\* <<null_count, row_count>>, and 0.0 is <<0, 1>>.
get_columns_stats(col, dtype_str, null_count, row_count) ==
    [name |-> col,
     dtype |-> dtype_str,
     null_count |-> null_count,
     null_ratio |-> IF row_count > 0 THEN <<null_count, row_count>> ELSE <<0, 1>>]

\* ratio > 0
RatioPositive(r) == r[1] > 0

\* ------------------------------------------------------------------------
\* core/contract_builder.py: build_physical_schema
\* ------------------------------------------------------------------------
DefaultNullCountPct == 100

DefaultDtype == "String"

\* the lookup map built from a list of (column_name, value) entries by
\* assignment in list order: the last entry of a column name wins
LookupMap(entries, keyField, valField) ==
    [c \in {entries[i][keyField] : i \in DOMAIN entries} |->
        LET last == CHOOSE i \in DOMAIN entries :
                       /\ entries[i][keyField] = c
                       /\ \A j \in DOMAIN entries :
                             entries[j][keyField] = c => j <= i
        IN  entries[last][valField]]

NamingSuggestions(naming_report) ==
    IF ~IsNone(naming_report) /\ Len(naming_report.violations) > 0
    THEN LookupMap(naming_report.violations, "column_name", "suggested_name")
    ELSE EmptyDict

TypeSuggestions(type_report) ==
    IF ~IsNone(type_report) /\ Len(type_report.suggestions) > 0
    THEN LookupMap(type_report.suggestions, "column_name", "suggested_polars_type")
    ELSE EmptyDict

\* user_overrides.get(col_name) if user_overrides else None
UserOverride(user_overrides, col_name) ==
    IF ~IsNone(user_overrides) /\ DOMAIN user_overrides # {}
    THEN Get(user_overrides, col_name, NoneObj)
    ELSE NoneObj

\* user_override.get(field) if user_override else None
UserOverrideField(user_override, field) ==
    IF ~IsNone(user_override) /\ DOMAIN user_override # {}
    THEN Get(user_override, field, None)
    ELSE None

\* target_name = user_override_name or ai_suggested_name or col_name
ResolveTargetName(user_override_name, ai_suggested_name, col_name) ==
    Or(user_override_name, Or(ai_suggested_name, col_name))

\* target_type = user_override_type or ai_suggested_type or dtype
ResolveTargetType(user_override_type, ai_suggested_type, col_data) ==
    Or(user_override_type, Or(ai_suggested_type, Get(col_data, "dtype", DefaultDtype)))

\* is_nullable = col_data.get("null_count_pct", 100) > 0
IsNullable(col_data) == Get(col_data, "null_count_pct", DefaultNullCountPct) > 0

\* the keyword arguments of the PhysicalColumn(...) call of one column
PhysicalColumnArgs(idx, col_data, naming_suggestions, type_suggestions, user_overrides) ==
    LET col_name           == Get(col_data, "name", None)
        ai_suggested_name  == Get(naming_suggestions, col_name, None)
        ai_suggested_type  == Get(type_suggestions, col_name, None)
        user_override      == UserOverride(user_overrides, col_name)
        user_override_name == UserOverrideField(user_override, "name")
        user_override_type == UserOverrideField(user_override, "type")
    IN  [source_name        |-> col_name,
         target_name        |-> ResolveTargetName(user_override_name, ai_suggested_name, col_name),
         data_type          |-> ResolveTargetType(user_override_type, ai_suggested_type, col_data),
         is_nullable        |-> IsNullable(col_data),
         role               |-> Get(col_data, "role", None),
         ai_suggested_name  |-> ai_suggested_name,
         user_override_name |-> user_override_name,
         ai_suggested_type  |-> ai_suggested_type,
         user_override_type |-> user_override_type,
         column_index       |-> idx]

\* `if not col_name`
NameMissing(col_data) == ~IsTruthy(Get(col_data, "name", None))

\* the loop over enumerate(columns), from index idx (zero-based) on, with
\* the columns appended so far
RECURSIVE BuildColumns(_, _, _, _, _, _)
BuildColumns(columns, naming_suggestions, type_suggestions, user_overrides, idx, physical_columns) ==
    IF idx >= Len(columns)
    THEN Return(physical_columns)
    ELSE LET col_data == columns[idx + 1]
         IN  IF NameMissing(col_data)
             THEN Raise("ValueError: Column missing required 'name' field")
             ELSE LET physical_column ==
                          PhysicalColumn(PhysicalColumnArgs(idx, col_data,
                              naming_suggestions, type_suggestions, user_overrides))
                  IN  IF physical_column.kind = "raise"
                      THEN physical_column
                      ELSE BuildColumns(columns, naming_suggestions,
                               type_suggestions, user_overrides, idx + 1,
                               Append(physical_columns, physical_column.value))

\* mutant: the emptiness check is forgotten
ColumnsEmpty_Forgotten(columns) == FALSE

\* `if not columns`
ColumnsEmpty(columns) == Len(columns) = 0

\* mutant: an override keyed by a name that no profile carries is rejected
build_physical_schema_strict(columns, naming_report, type_report, user_overrides) ==
    IF ColumnsEmpty(columns)
    THEN Raise("ValueError: Columns list cannot be empty")
    ELSE IF /\ ~IsNone(user_overrides)
            /\ \E c \in DOMAIN user_overrides :
                  \A i \in 1..Len(columns) : Get(columns[i], "name", None) # c
    THEN Raise("KeyError: override of an unknown column")
    ELSE BuildColumns(columns, NamingSuggestions(naming_report),
                      TypeSuggestions(type_report), user_overrides, 0, << >>)

build_physical_schema(columns, naming_report, type_report, user_overrides) ==
    IF ColumnsEmpty(columns)
    THEN Raise("ValueError: Columns list cannot be empty")
    ELSE BuildColumns(columns, NamingSuggestions(naming_report),
                      TypeSuggestions(type_report), user_overrides, 0, << >>)

\* ------------------------------------------------------------------------
\* core/contract_builder.py: _get_polars_dtype
\* ------------------------------------------------------------------------
\* A Polars dtype object is written as the string str() gives for it.
dtype_map ==
    [Int8 |-> "Int8", Int16 |-> "Int16", Int32 |-> "Int32", Int64 |-> "Int64",
     UInt8 |-> "UInt8", UInt16 |-> "UInt16", UInt32 |-> "UInt32", UInt64 |-> "UInt64",
     Float32 |-> "Float32", Float64 |-> "Float64",
     String |-> "String", Utf8 |-> "String", Binary |-> "Binary",
     Boolean |-> "Boolean", Bool |-> "Boolean",
     Date |-> "Date", Datetime |-> "Datetime(time_unit='us', time_zone=None)",
     Time |-> "Time", Categorical |-> "Categorical", Object |-> "Object"]

\* the type names of the model for which dtype_str.startswith("Decimal")
DecimalPrefixed ==
    {"Decimal", "Decimal(10,2)", "Decimal(12,4)", "Decimal(10, 2)", "Decimal(x)"}

\* re.match(r"Decimal\((\d+),\s*(\d+)\)", dtype_str) on those names: the names
\* that match, each with pl.Decimal(precision, scale) of the two groups
DecimalMatch ==
    "Decimal(10,2)" :> "Decimal(precision=10, scale=2)" @@
    "Decimal(12,4)" :> "Decimal(precision=12, scale=4)" @@
    "Decimal(10, 2)" :> "Decimal(precision=10, scale=2)"

\* mutant: a name with the prefix that does not parse falls through to the
\* default
_get_polars_dtype_no_fallback(dtype_str) ==
    IF dtype_str \in DOMAIN dtype_map
    THEN dtype_map[dtype_str]
    ELSE IF dtype_str \in DOMAIN DecimalMatch
    THEN DecimalMatch[dtype_str]
    ELSE "String"

_get_polars_dtype(dtype_str) ==
    IF dtype_str \in DOMAIN dtype_map
    THEN dtype_map[dtype_str]
    ELSE IF dtype_str \in DecimalPrefixed
    THEN IF dtype_str \in DOMAIN DecimalMatch
         THEN DecimalMatch[dtype_str]
         ELSE "Decimal"
    ELSE "String"

\* ------------------------------------------------------------------------
\* polars.DataFrame, as far as apply_schema_transform uses it
\* ------------------------------------------------------------------------
\* A DataFrame is [columns |-> list of Series, height |-> number of rows]; a
\* Series is [name, dtype, cast_fails], cast_fails being the dtypes a strict
\* cast of its values raises for.
DataFrame(series, height) == [columns |-> series, height |-> height]

Series(name, dtype, cast_fails) == [name |-> name, dtype |-> dtype, cast_fails |-> cast_fails]

\* df.is_empty()
IsEmpty(d) == d.height = 0

\* df.columns, as a set
ColumnNames(d) == {d.columns[i].name : i \in DOMAIN d.columns}

\* df.schema[name] as a string
CurrentType(d, name) ==
    LET i == CHOOSE j \in DOMAIN d.columns : d.columns[j].name = name
    IN  d.columns[i].dtype

\* df.rename({old: new}): a new name that another column carries raises
DfRename(d, old, new) ==
    IF new \in ColumnNames(d)
    THEN Raise("DuplicateError: column name occurs more than once")
    ELSE Return([d EXCEPT !.columns =
                    [j \in DOMAIN d.columns |->
                        IF d.columns[j].name = old
                        THEN [d.columns[j] EXCEPT !.name = new]
                        ELSE d.columns[j]]])

\* df.with_columns(pl.col(name).cast(dtype)): raises when the values of the
\* column do not convert
DfCast(d, name, dtype) ==
    LET i == CHOOSE j \in DOMAIN d.columns : d.columns[j].name = name
    IN  IF dtype \in d.columns[i].cast_fails
        THEN Raise("InvalidOperationError: conversion failed")
        ELSE Return([d EXCEPT !.columns[i].dtype = dtype])

\* ------------------------------------------------------------------------
\* core/contract_builder.py: apply_schema_transform
\* ------------------------------------------------------------------------
\* attribute access obj.attr on a model object
HasAttr(obj, attr) == attr \in DOMAIN obj

TransformRecord(col_name, target_name, target_type, actions) ==
    [column |-> col_name, target_name |-> target_name,
     target_type |-> target_type, actions |-> actions]

\* the try block: compare the current type with target_type and cast;
\* any exception becomes a CAST_ERROR action and the frame stays as it was
CastStep(d, target_name, target_type) ==
    LET current_type == CurrentType(d, target_name)
        cast == DfCast(d, target_name, _get_polars_dtype(target_type))
    IN  IF current_type = target_type
        THEN [df |-> d, actions |-> << >>]
        ELSE IF cast.kind = "raise"
        THEN [df |-> d,
              actions |-> <<[tag |-> "CAST_ERROR", to |-> target_type]>>]
        ELSE [df |-> cast.value,
              actions |-> <<[tag |-> "CAST", from |-> current_type, to |-> target_type]>>]

\* the loop over physical_schema from position k (one-based) on
RECURSIVE TransformColumns(_, _, _, _)
TransformColumns(physical_schema, k, df_transformed, transformation_log) ==
    IF k > Len(physical_schema)
    THEN Return([df |-> df_transformed, log |-> transformation_log])
    ELSE LET physical_col == physical_schema[k]
             col_name == physical_col.source_name
             target_name == physical_col.target_name
         IN  IF ~HasAttr(physical_col, "data_type")
             THEN Raise("AttributeError: 'PhysicalColumn' object has no attribute 'data_type'")
             ELSE LET target_type == physical_col.data_type
                      renamed == IF col_name # target_name
                                 THEN DfRename(df_transformed, col_name, target_name)
                                 ELSE Return(df_transformed)
                      rename_actions ==
                          IF col_name # target_name
                          THEN <<[tag |-> "RENAME", from |-> col_name, to |-> target_name]>>
                          ELSE << >>
                      cast == CastStep(renamed.value, target_name, target_type)
                      actions == rename_actions \o cast.actions
                  IN  IF col_name \notin ColumnNames(df_transformed)
                      THEN TransformColumns(physical_schema, k + 1, df_transformed,
                               Append(transformation_log,
                                   TransformRecord(col_name, target_name, target_type,
                                       <<[tag |-> "SKIP", column |-> col_name]>>)))
                      ELSE IF renamed.kind = "raise"
                      THEN renamed
                      ELSE TransformColumns(physical_schema, k + 1, cast.df,
                               Append(transformation_log,
                                   TransformRecord(col_name, target_name, target_type,
                                       IF actions = << >>
                                       THEN <<[tag |-> "NO_CHANGE"]>>
                                       ELSE actions)))

\* mutant: the schema is checked before the dataset
apply_schema_transform_schema_first(d, physical_schema) ==
    IF Len(physical_schema) = 0
    THEN Raise("ValueError: Physical schema cannot be empty")
    ELSE IF IsNone(d) \/ IsEmpty(d)
    THEN Raise("ValueError: DataFrame cannot be None or empty")
    ELSE TransformColumns(physical_schema, 1, d, << >>)

\* the two checks of the arguments, then df.clone() and the loop
apply_schema_transform(d, physical_schema) ==
    IF IsNone(d) \/ IsEmpty(d)
    THEN Raise("ValueError: DataFrame cannot be None or empty")
    ELSE IF Len(physical_schema) = 0
    THEN Raise("ValueError: Physical schema cannot be empty")
    ELSE TransformColumns(physical_schema, 1, d, << >>)

\* ------------------------------------------------------------------------
\* State
\* ------------------------------------------------------------------------
VARIABLES
    columns,          \* build_physical_schema: the list of profiles
    naming_report,    \* build_physical_schema: NamingCheckReport or None
    type_report,      \* build_physical_schema: TypeCheckReport or None
    user_overrides,   \* build_physical_schema: dict of overrides or None
    build_results,    \* outcomes of the calls of build_physical_schema so far
    df,               \* apply_schema_transform: the DataFrame passed in
    physical_schema,  \* apply_schema_transform: the list of PhysicalColumn
    transform_result, \* outcome of the call of apply_schema_transform
    contract,         \* the MetadataContract given to validate / save
    validate_result,  \* outcome of the call of validate_contract
    create_args,      \* create_metadata_contract: its keyword arguments
    create_result,    \* outcome of the call of create_metadata_contract
    clock,            \* what datetime.utcnow().isoformat() gives
    files,            \* the file system: path -> content of the file
    dirs,             \* the file system: the directories that exist
    export_calls,     \* the calls of the functions of core/export.py so far
    dtype_calls,      \* the calls of _get_polars_dtype so far
    session_state,    \* app.py: st.session_state
    approval          \* app.py: what the call of handle_approval did

vars == <<columns, naming_report, type_report, user_overrides, build_results,
          df, physical_schema, transform_result,
          contract, validate_result, create_args, create_result, clock,
          files, dirs, export_calls, dtype_calls, session_state, approval>>

build_inputs == <<columns, naming_report, type_report, user_overrides>>

transform_vars == <<df, physical_schema, transform_result>>

validate_vars == <<contract, validate_result>>

create_vars == <<create_args, create_result, clock>>

export_vars == <<files, dirs, export_calls>>

mapper_vars == <<dtype_calls>>

approval_vars == <<session_state, approval>>

\* ------------------------------------------------------------------------
\* Bounds and input universes
\* ------------------------------------------------------------------------
MaxCols == 2

MaxSugg == 1

MaxCalls == 2

SeqsUpTo(S, n) == UNION {[1..k -> S] : k \in 0..n}

\* profiles as the profiler emits them (null_ratio, no null_count_pct)
ProfilerProfiles ==
    {get_columns_stats("a", "Int64", 0, 2),
     get_columns_stats("a", "Int64", 1, 2),
     get_columns_stats("b", "Float64", 0, 2)}

\* profiles as the callers of the unit tests write them (null_count_pct)
HandWrittenProfiles ==
    {[name |-> "a", dtype |-> "Int64", null_count_pct |-> 0],
     [name |-> "b", dtype |-> "Float64", null_count_pct |-> 5, role |-> "metric"],
     [name |-> "a"]}

\* profiles without a usable name
NamelessProfiles ==
    {[dtype |-> "Int64", null_count_pct |-> 0],
     [name |-> "", dtype |-> "Int64", null_count_pct |-> 0]}

Profiles == ProfilerProfiles \cup HandWrittenProfiles \cup NamelessProfiles

NamingViolations ==
    {[column_name |-> "a", suggested_name |-> "x"],
     [column_name |-> "a", suggested_name |-> "b"],
     [column_name |-> "z", suggested_name |-> "x"]}

NamingReports ==
    {NoneObj} \cup {[violations |-> s] : s \in SeqsUpTo(NamingViolations, MaxSugg)}

TypeSuggestionSet ==
    {[column_name |-> "a", suggested_polars_type |-> "UInt32"],
     [column_name |-> "z", suggested_polars_type |-> "UInt32"]}

TypeReports ==
    {NoneObj} \cup {[suggestions |-> s] : s \in SeqsUpTo(TypeSuggestionSet, MaxSugg)}

UserOverrideSets ==
    {NoneObj,
     EmptyDict,
     [a |-> [name |-> "y"]],
     [a |-> [type |-> "Decimal(12,4)"]],
     [a |-> [name |-> "y", type |-> "Decimal(12,4)"]],
     [z |-> [name |-> "y"]],
     [a |-> [name |-> "y"], z |-> [type |-> "Decimal(12,4)"]]}

\* ------------------------------------------------------------------------
\* Reconciliation: the inputs are drawn at Init, every step is one call
\* ------------------------------------------------------------------------
TransformIdle ==
    /\ df = NoneObj
    /\ physical_schema = << >>
    /\ transform_result = NotCalled

ValidateIdle ==
    /\ contract = NoneObj
    /\ validate_result = NotCalled

CreateIdle ==
    /\ create_args = NoneObj
    /\ create_result = NotCalled
    /\ clock = "1970-01-01T00:00:00"

ExportIdle ==
    /\ files = EmptyDict
    /\ dirs = {"."}
    /\ export_calls = << >>

MapperIdle == dtype_calls = << >>

ApprovalIdle ==
    /\ session_state = EmptyDict
    /\ approval = NotCalled

InitBuild ==
    /\ columns \in SeqsUpTo(Profiles, MaxCols)
    /\ naming_report \in NamingReports
    /\ type_report \in TypeReports
    /\ user_overrides \in UserOverrideSets
    /\ build_results = << >>
    /\ TransformIdle
    /\ ValidateIdle
    /\ CreateIdle
    /\ ExportIdle
    /\ MapperIdle
    /\ ApprovalIdle

\* mutant: the call pops the overrides it has looked up out of the dict
BuildPhysicalSchema_Popping ==
    /\ Len(build_results) < MaxCalls
    /\ build_results' = Append(build_results,
           build_physical_schema(columns, naming_report, type_report, user_overrides))
    /\ user_overrides' =
           IF IsNone(user_overrides) THEN user_overrides
           ELSE [c \in DOMAIN user_overrides \
                       {Get(columns[i], "name", None) : i \in 1..Len(columns)} |->
                    user_overrides[c]]
    /\ UNCHANGED <<columns, naming_report, type_report>>
    /\ UNCHANGED transform_vars
    /\ UNCHANGED <<validate_vars, create_vars, export_vars>>
    /\ UNCHANGED <<mapper_vars, approval_vars>>

\* one call build_physical_schema(columns, naming_report, type_report,
\* user_overrides): the function reads its arguments and assigns none of them
BuildPhysicalSchema ==
    /\ Len(build_results) < MaxCalls
    /\ build_results' = Append(build_results,
           build_physical_schema(columns, naming_report, type_report, user_overrides))
    /\ UNCHANGED build_inputs
    /\ UNCHANGED transform_vars
    /\ UNCHANGED <<validate_vars, create_vars, export_vars>>
    /\ UNCHANGED <<mapper_vars, approval_vars>>

NextBuild == BuildPhysicalSchema

SpecBuild == InitBuild /\ [][NextBuild]_vars

\* the outcome of the latest call
LastBuild == build_results[Len(build_results)]

Built == Len(build_results) > 0

\* ------------------------------------------------------------------------
\* What the claims call a valid input, a present suggestion, a present override
\* ------------------------------------------------------------------------
\* a non-empty list of profiles that all carry a non-empty name
ValidColumns ==
    /\ Len(columns) >= 1
    /\ \A i \in 1..Len(columns) :
          "name" \in DOMAIN columns[i] /\ columns[i].name \notin {None, ""}

\* the value of the last entry of a report about column c, None when absent
LastEntry(entries, c, valField) ==
    LET hits == {i \in DOMAIN entries : entries[i].column_name = c}
    IN  IF hits = {} THEN None
        ELSE entries[CHOOSE i \in hits : \A j \in hits : j <= i][valField]

AiName(c) ==
    IF IsNone(naming_report) THEN None
    ELSE LastEntry(naming_report.violations, c, "suggested_name")

AiType(c) ==
    IF IsNone(type_report) THEN None
    ELSE LastEntry(type_report.suggestions, c, "suggested_polars_type")

OverrideOf(c, field) ==
    IF IsNone(user_overrides) THEN None
    ELSE IF c \notin DOMAIN user_overrides THEN None
    ELSE IF field \notin DOMAIN user_overrides[c] THEN None
    ELSE user_overrides[c][field]

\* user override if present, else AI suggestion if present, else source value
Precedence(override, suggestion, source) ==
    IF override # None THEN override
    ELSE IF suggestion # None THEN suggestion
    ELSE source

\* the latest call returned a list with one column per profile
ReturnedSchema ==
    /\ LastBuild.kind = "return"
    /\ Len(LastBuild.value) = Len(columns)

\* ------------------------------------------------------------------------
\* Claims about build_physical_schema
\* ------------------------------------------------------------------------

\* C1: name precedence. For every profiled column and every combination of
\* absent/present AI naming suggestion and user name override, the resulting
\* target_name is the user override if present, else the AI suggested name
\* if present, else the source column name.
C1_NamePrecedence ==
    (Built /\ ValidColumns) =>
        /\ ReturnedSchema
        /\ \A i \in 1..Len(columns) :
              LastBuild.value[i].target_name =
                  Precedence(OverrideOf(columns[i].name, "name"),
                             AiName(columns[i].name), columns[i].name)

\* C2: type precedence. For every profiled column and every combination of
\* absent/present AI type suggestion and user type override, the resulting
\* target_type is the user override type if present, else the AI suggested
\* type if present, else the dtype of the profile.
C2_TypePrecedence ==
    (Built /\ ValidColumns /\ \A i \in 1..Len(columns) : "dtype" \in DOMAIN columns[i]) =>
        /\ ReturnedSchema
        /\ \A i \in 1..Len(columns) :
              LastBuild.value[i].target_type =
                  Precedence(OverrideOf(columns[i].name, "type"),
                             AiType(columns[i].name), columns[i].dtype)

\* C3: provenance. On every reconciled column ai_suggested_name and
\* ai_suggested_type are the AI suggestions matched for the source column
\* (None when none matches) and user_override_name and user_override_type
\* are the user's overrides for it (None when absent), whichever value won
\* the resolution.
C3_ProvenancePreserved ==
    (Built /\ ValidColumns) =>
        /\ ReturnedSchema
        /\ \A i \in 1..Len(columns) :
              LET c == columns[i].name
                  pc == LastBuild.value[i]
              IN  /\ pc.ai_suggested_name = AiName(c)
                  /\ pc.ai_suggested_type = AiType(c)
                  /\ pc.user_override_name = OverrideOf(c, "name")
                  /\ pc.user_override_type = OverrideOf(c, "type")

\* C4: order preservation. For N >= 1 valid profiles and any suggestions and
\* overrides the call returns exactly N physical columns, the column at
\* position i has column_index = i and the source_name of the i-th profile.
C4_OrderPreserved ==
    (Built /\ ValidColumns) =>
        /\ ReturnedSchema
        /\ \A i \in 1..Len(columns) :
              /\ LastBuild.value[i].column_index = i - 1
              /\ LastBuild.value[i].source_name = columns[i].name

ProfileNames == {Get(columns[i], "name", None) : i \in 1..Len(columns)}

\* a report entry or an override key that names a column of no profile
Unmatched(c) == c \notin ProfileNames

\* C6: input errors. The call raises when the profile list is empty and when
\* any profile, at any position, has a missing or empty name; it then
\* returns no schema, not even a partial one, and skips no profile.
C6_InputErrorsRaise ==
    (Built /\ ~ValidColumns) => LastBuild.kind = "raise"

C6_Witness ==
    /\ Built
    /\ Len(columns) >= 2
    /\ IsTruthy(Get(columns[1], "name", None))
    /\ ~IsTruthy(Get(columns[2], "name", None))
    /\ LastBuild.kind = "raise"

\* C7: nullability. For every column built from a profile as the profiler
\* emits it, is_nullable is true iff the profile's null ratio is above 0.
C7_NullableIffNullRatio ==
    (Built /\ ValidColumns /\ \A i \in 1..Len(columns) : columns[i] \in ProfilerProfiles) =>
        /\ ReturnedSchema
        /\ \A i \in 1..Len(columns) :
              LastBuild.value[i].is_nullable = RatioPositive(columns[i].null_ratio)

\* the inputs without the report entries and override keys that are unmatched
MatchedEntry(e) == ~Unmatched(e.column_name)

MatchedNamingReport ==
    IF IsNone(naming_report) THEN naming_report
    ELSE [violations |-> SelectSeq(naming_report.violations, MatchedEntry)]

MatchedTypeReport ==
    IF IsNone(type_report) THEN type_report
    ELSE [suggestions |-> SelectSeq(type_report.suggestions, MatchedEntry)]

MatchedUserOverrides ==
    IF IsNone(user_overrides) THEN user_overrides
    ELSE [c \in {k \in DOMAIN user_overrides : ~Unmatched(k)} |-> user_overrides[c]]

MaxSchema == 2

\* datasets: None, a frame without rows, frames of one and of two columns
DataFrames ==
    {NoneObj,
     DataFrame(<<Series("a", "Int64", {})>>, 0),
     DataFrame(<<Series("a", "Int64", {})>>, 3),
     DataFrame(<<Series("a", "String", {"Int64"})>>, 3),
     DataFrame(<<Series("a", "Int64", {}), Series("b", "String", {})>>, 3),
     DataFrame(<<Series("a", "String", {}), Series("b", "String", {"Float64"})>>, 3)}

\* PhysicalColumn objects as the callers construct them; column "c" is in
\* no dataset, and "x" is the name a rename gives
SchemaColumn(source_name, target_name, target_type, column_index) ==
    PhysicalColumn([source_name |-> source_name, target_name |-> target_name,
                    source_type |-> "Int64", target_type |-> target_type,
                    is_nullable |-> FALSE, column_index |-> column_index]).value

SchemaColumnsAt(column_index) ==
    UNION {{SchemaColumn(s, t, ty, column_index) :
               t \in {s, "x"}, ty \in {"Int64", "Float64"}} : s \in {"a", "b", "c", "x"}}

PhysicalSchemas ==
    UNION {{sch \in [1..n -> SchemaColumnsAt(0) \cup UNION {SchemaColumnsAt(i) : i \in 1..n}] :
               \A i \in 1..n : sch[i].column_index = i - 1} : n \in 0..MaxSchema}

BuildIdle ==
    /\ columns = << >>
    /\ naming_report = NoneObj
    /\ type_report = NoneObj
    /\ user_overrides = NoneObj
    /\ build_results = << >>

InitTransform ==
    /\ df \in DataFrames
    /\ physical_schema \in PhysicalSchemas
    /\ transform_result = NotCalled
    /\ BuildIdle
    /\ ValidateIdle
    /\ CreateIdle
    /\ ExportIdle
    /\ MapperIdle
    /\ ApprovalIdle

\* mutant: no df.clone(), and the first column is renamed on the caller's
\* frame before its type is read
ApplySchemaTransform_InPlace ==
    /\ transform_result = NotCalled
    /\ transform_result' = apply_schema_transform(df, physical_schema)
    /\ df' = IF /\ ~IsNone(df)
                /\ ~IsEmpty(df)
                /\ Len(physical_schema) >= 1
                /\ physical_schema[1].source_name \in ColumnNames(df)
                /\ physical_schema[1].target_name \notin ColumnNames(df)
             THEN DfRename(df, physical_schema[1].source_name,
                           physical_schema[1].target_name).value
             ELSE df
    /\ UNCHANGED physical_schema
    /\ UNCHANGED <<build_inputs, build_results>>
    /\ UNCHANGED <<validate_vars, create_vars, export_vars>>
    /\ UNCHANGED <<mapper_vars, approval_vars>>

\* the call apply_schema_transform(df, physical_schema): the function works
\* on df.clone() and assigns neither argument
ApplySchemaTransform ==
    /\ transform_result = NotCalled
    /\ transform_result' = apply_schema_transform(df, physical_schema)
    /\ UNCHANGED <<df, physical_schema>>
    /\ UNCHANGED <<build_inputs, build_results>>
    /\ UNCHANGED <<validate_vars, create_vars, export_vars>>
    /\ UNCHANGED <<mapper_vars, approval_vars>>

NextTransform == ApplySchemaTransform

SpecTransform == InitTransform /\ [][NextTransform]_vars

Transformed == transform_result # NotCalled

\* a dataset with rows and a schema with columns
TransformInputsValid ==
    /\ ~IsNone(df)
    /\ ~IsEmpty(df)
    /\ Len(physical_schema) >= 1

\* every rename of the schema gives a name that no column of the dataset and
\* no earlier entry of the schema carries
RenamesDoNotCollide ==
    \A i \in 1..Len(physical_schema) :
        physical_schema[i].target_name # physical_schema[i].source_name =>
            /\ physical_schema[i].target_name \notin ColumnNames(df)
            /\ \A j \in 1..(i - 1) :
                  physical_schema[j].target_name # physical_schema[i].target_name

\* the schema entries whose source column is not in the dataset
MissingEntries ==
    {i \in 1..Len(physical_schema) : physical_schema[i].source_name \notin ColumnNames(df)}

SourceNamesDistinct ==
    \A i, j \in 1..Len(physical_schema) :
        i # j => physical_schema[i].source_name # physical_schema[j].source_name

\* the schema without its entry m
WithoutEntry(m) ==
    SubSeq(physical_schema, 1, m - 1) \o SubSeq(physical_schema, m + 1, Len(physical_schema))

HasTag(entry, tag) == \E a \in DOMAIN entry.actions : entry.actions[a].tag = tag

\* ------------------------------------------------------------------------
\* Claims about apply_schema_transform
\* ------------------------------------------------------------------------

\* C9: transform completeness. On a non-empty dataset and a non-empty schema
\* (whose renames do not collide) the call returns, and the log it returns
\* has exactly one entry per schema column, in schema order: entry i reports
\* source_name, target_name and target_type of schema column i, however many
\* columns were skipped, renamed or cast.
C9_TransformCompleteness ==
    (Transformed /\ TransformInputsValid /\ RenamesDoNotCollide) =>
        /\ transform_result.kind = "return"
        /\ Len(transform_result.value.log) = Len(physical_schema)
        /\ \A i \in 1..Len(physical_schema) :
              LET entry == transform_result.value.log[i]
              IN  /\ entry.column = physical_schema[i].source_name
                  /\ entry.target_name = physical_schema[i].target_name
                  /\ entry.target_type = physical_schema[i].target_type

\* C10: partial-failure isolation. When exactly one schema column names a
\* source column that the dataset does not have, the call still returns, the
\* other columns are renamed and cast exactly as by the schema without that
\* entry, and the log has exactly one SKIP, in the entry of the missing column.
C10_PartialFailureIsolation ==
    (/\ Transformed /\ TransformInputsValid /\ RenamesDoNotCollide
     /\ SourceNamesDistinct
     /\ Len(physical_schema) >= 2
     /\ Cardinality(MissingEntries) = 1) =>
        LET m == CHOOSE i \in MissingEntries : TRUE
            others == apply_schema_transform(df, WithoutEntry(m))
        IN  /\ transform_result.kind = "return"
            /\ others.kind = "return"
            /\ transform_result.value.df = others.value.df
            /\ \A i \in 1..Len(physical_schema) :
                  HasTag(transform_result.value.log[i], "SKIP") <=> i = m

\* the schema entries whose column is in the dataset (after the rename) and
\* whose cast to the target type fails
FailingCasts ==
    {i \in 1..Len(physical_schema) :
        /\ physical_schema[i].source_name \in ColumnNames(df)
        /\ LET j == CHOOSE c \in DOMAIN df.columns :
                        df.columns[c].name = physical_schema[i].source_name
           IN  /\ df.columns[j].dtype # physical_schema[i].target_type
               /\ _get_polars_dtype(physical_schema[i].target_type)
                      \in df.columns[j].cast_fails}

\* C11: cast-failure containment. When the cast of a schema column fails
\* (non-empty dataset, non-empty schema, renames that do not collide, distinct
\* source names), the call returns, the log entry of that column holds a
\* CAST_ERROR action, the column keeps its pre-cast type in the returned
\* dataset, and every schema column, the later ones included, has its log
\* entry.
C11_CastFailureContained ==
    (/\ Transformed /\ TransformInputsValid /\ RenamesDoNotCollide
     /\ SourceNamesDistinct
     /\ FailingCasts # {}) =>
        /\ transform_result.kind = "return"
        /\ Len(transform_result.value.log) = Len(physical_schema)
        /\ \A i \in FailingCasts :
              /\ HasTag(transform_result.value.log[i], "CAST_ERROR")
              /\ CurrentType(transform_result.value.df, physical_schema[i].target_name)
                    = CurrentType(df, physical_schema[i].source_name)

\* C12: per-column problems are never raised. For every non-empty dataset
\* and every non-empty schema, whatever names and types the schema carries,
\* the call returns a (dataset, log) pair.
C12_PerColumnProblemsNeverRaised ==
    (Transformed /\ TransformInputsValid) => transform_result.kind = "return"

C14_TransformerInputErrors ==
    Transformed =>
        /\ (IsNone(df) \/ IsEmpty(df)) =>
              transform_result = Raise("ValueError: DataFrame cannot be None or empty")
        /\ (~IsNone(df) /\ ~IsEmpty(df) /\ Len(physical_schema) = 0) =>
              transform_result = Raise("ValueError: Physical schema cannot be empty")

\* an empty dataset together with an empty schema reports the dataset error
C14_Witness ==
    /\ Transformed
    /\ ~IsNone(df)
    /\ IsEmpty(df)
    /\ Len(physical_schema) = 0
    /\ transform_result = Raise("ValueError: DataFrame cannot be None or empty")

\* ------------------------------------------------------------------------
\* Python values in slots typed Any or Optional[...]
\* ------------------------------------------------------------------------
\* The values of identity and statistical_profile (Dict[str, Any]) and of
\* column_roles carry their Python type.
PyStr(s) == [type |-> "str", str |-> s]

PyInt(n) == [type |-> "int", int |-> n]

PyNone == [type |-> "NoneType"]

PyDatetime(iso) == [type |-> "datetime", isoformat |-> iso]

PyTuple(items) == [type |-> "tuple", items |-> items]

PyList(items) == [type |-> "list", items |-> items]

\* truthiness of such a value
Truthy(v) == v \notin {PyNone, PyStr(""), PyInt(0), PyTuple(<< >>), PyList(<< >>)}

\* ------------------------------------------------------------------------
\* schemas/data_models.py: ColumnRole, MetadataContract
\* ------------------------------------------------------------------------
ColumnRole(column_name, role_type, description) ==
    [column_name |-> column_name, role_type |-> role_type, description |-> description]

MetadataContractRequired == {"identity", "physical_schema", "statistical_profile"}

\* MetadataContract(**kwargs): the three required fields, column_roles with
\* default None; keyword arguments that are not declared fields are ignored
MetadataContract(kwargs) ==
    IF MetadataContractRequired \subseteq DOMAIN kwargs
    THEN Return([identity |-> kwargs.identity,
                 physical_schema |-> kwargs.physical_schema,
                 statistical_profile |-> kwargs.statistical_profile,
                 column_roles |-> Get(kwargs, "column_roles", PyNone)])
    ELSE Raise("ValidationError: MetadataContract field required")

\* ------------------------------------------------------------------------
\* core/contract_builder.py: validate_contract
\* ------------------------------------------------------------------------
\* an issue is its text, with the values the f-string puts into it
Issue(text) == [issue |-> text]

ColumnIssue(idx, text) == [issue |-> text, idx |-> idx]

IndexIssue(source_name, column_index, idx) ==
    [issue |-> "Column has non-sequential index", column |-> source_name,
     column_index |-> column_index, idx |-> idx]

\* the loop over contract.physical_schema from position k (one-based) on;
\* idx is the zero-based position of enumerate
RECURSIVE ValidateColumns(_, _, _, _)
ValidateColumns(physical_columns, k, issues, target_names) ==
    IF k > Len(physical_columns)
    THEN Return([issues |-> issues, target_names |-> target_names])
    ELSE LET col == physical_columns[k]
             idx == k - 1
             source_issues == IF ~IsTruthy(col.source_name)
                              THEN <<ColumnIssue(idx, "Column missing source_name")>>
                              ELSE << >>
             target_issues == IF ~IsTruthy(col.target_name)
                              THEN <<ColumnIssue(idx, "Column missing target_name")>>
                              ELSE << >>
         IN  IF ~HasAttr(col, "data_type")
             THEN Raise("AttributeError: 'PhysicalColumn' object has no attribute 'data_type'")
             ELSE LET type_issues == IF ~IsTruthy(col.data_type)
                                     THEN <<ColumnIssue(idx, "Column missing data_type")>>
                                     ELSE << >>
                      index_issues == IF col.column_index # idx
                                      THEN <<IndexIssue(col.source_name, col.column_index, idx)>>
                                      ELSE << >>
                  IN  ValidateColumns(physical_columns, k + 1,
                          issues \o source_issues \o target_issues \o type_issues \o index_issues,
                          IF IsTruthy(col.target_name)
                          THEN Append(target_names, col.target_name)
                          ELSE target_names)

\* target_names.count(name)
Count(target_names, name) == Cardinality({i \in DOMAIN target_names : target_names[i] = name})

\* set(duplicates)
Duplicates(target_names) ==
    {target_names[i] : i \in {j \in DOMAIN target_names : Count(target_names, target_names[j]) > 1}}

DuplicateIssues(target_names) ==
    IF Duplicates(target_names) # {}
    THEN <<[issue |-> "Duplicate target names found", names |-> Duplicates(target_names)]>>
    ELSE << >>

required_identity == <<"table_name", "version", "created_at", "source_path", "target_path">>

IdentityFieldMissing(identity, field) ==
    field \notin DOMAIN identity \/ ~Truthy(identity[field])

IdentityIssues(identity) ==
    LET missing == SelectSeq(required_identity, LAMBDA field : IdentityFieldMissing(identity, field))
    IN  [i \in 1..Len(missing) |->
            [issue |-> "Identity missing required field", field |-> missing[i]]]

ProfileIssues(statistical_profile) ==
    IF DOMAIN statistical_profile = {}
    THEN <<Issue("Statistical profile is empty")>>
    ELSE << >>

Verdict(issues) == [is_valid |-> Len(issues) = 0, issues |-> issues]

validate_contract(c) ==
    IF Len(c.physical_schema) = 0
    THEN Return([is_valid |-> FALSE, issues |-> <<Issue("Physical schema is empty")>>])
    ELSE LET cols == ValidateColumns(c.physical_schema, 1, << >>, << >>)
         IN  IF cols.kind = "raise"
             THEN cols
             ELSE Return(Verdict(cols.value.issues
                                 \o DuplicateIssues(cols.value.target_names)
                                 \o IdentityIssues(c.identity)
                                 \o ProfileIssues(c.statistical_profile)))

\* ------------------------------------------------------------------------
\* Validation: the contract is drawn at Init, the step is the call
\* ------------------------------------------------------------------------
MaxContractCols == 2

\* columns as MetadataContract holds them: PhysicalColumn objects whose names
\* may be empty or shared and whose index may be off
ContractColumns ==
    {PhysicalColumn([source_name |-> s, target_name |-> t, source_type |-> "Int64",
                     target_type |-> "Int64", is_nullable |-> FALSE,
                     column_index |-> i]).value :
        s \in {"a", ""}, t \in {"x", "y", ""}, i \in {0, 1, 5}}
    \cup {PhysicalColumn([source_name |-> "a", target_name |-> "x", source_type |-> "Int64",
                          target_type |-> "", is_nullable |-> FALSE,
                          column_index |-> 0]).value}

FullIdentity ==
    [table_name |-> PyStr("test"), version |-> PyStr("1.0.0"),
     created_at |-> PyStr("2024-01-01T00:00:00"), source_path |-> PyStr("/in.csv"),
     target_path |-> PyStr("/out.parquet"), created_by |-> PyStr("test@example.com")]

\* the dict without the keys
Without(d, keys) == [k \in DOMAIN d \ keys |-> d[k]]

Identities ==
    {FullIdentity,
     Without(FullIdentity, {"created_by"}),
     [FullIdentity EXCEPT !.version = PyStr("")],
     [FullIdentity EXCEPT !.created_at = PyNone],
     [table_name |-> PyStr("test"), version |-> PyStr("1.0.0")],
     EmptyDict}

StatisticalProfiles == {EmptyDict, [row_count |-> PyInt(100)]}

Contracts ==
    {MetadataContract([identity |-> i, physical_schema |-> sch,
                       statistical_profile |-> p]).value :
        i \in Identities, sch \in SeqsUpTo(ContractColumns, MaxContractCols),
        p \in StatisticalProfiles}

InitValidate ==
    /\ contract \in Contracts
    /\ validate_result = NotCalled
    /\ BuildIdle
    /\ TransformIdle
    /\ CreateIdle
    /\ ExportIdle
    /\ MapperIdle
    /\ ApprovalIdle

\* the call validate_contract(contract): the function reads the contract
ValidateContract ==
    /\ validate_result = NotCalled
    /\ validate_result' = validate_contract(contract)
    /\ UNCHANGED contract
    /\ UNCHANGED <<build_inputs, build_results, transform_vars, create_vars, export_vars>>
    /\ UNCHANGED <<mapper_vars, approval_vars>>

NextValidate == ValidateContract

SpecValidate == InitValidate /\ [][NextValidate]_vars

Validated == validate_result # NotCalled

\* ------------------------------------------------------------------------
\* Claims about validate_contract
\* ------------------------------------------------------------------------
SchemaNonEmpty == Len(contract.physical_schema) > 0

RequiredFieldsNonEmpty ==
    \A i \in 1..Len(contract.physical_schema) :
        /\ contract.physical_schema[i].source_name # ""
        /\ contract.physical_schema[i].target_name # ""
        /\ contract.physical_schema[i].target_type # ""

\* the target names that two or more columns carry
SharedTargetNames ==
    {contract.physical_schema[i].target_name :
        i \in {k \in 1..Len(contract.physical_schema) :
                  \E j \in 1..Len(contract.physical_schema) :
                      /\ j # k
                      /\ contract.physical_schema[j].target_name
                            = contract.physical_schema[k].target_name}}

\* the positions (zero-based) whose column carries another index
OffIndexPositions ==
    {i - 1 : i \in {k \in 1..Len(contract.physical_schema) :
                       contract.physical_schema[k].column_index # k - 1}}

MissingIdentityFields ==
    {required_identity[i] : i \in {k \in DOMAIN required_identity :
                                      IdentityFieldMissing(contract.identity, required_identity[k])}}

ProfileNonEmpty == DOMAIN contract.statistical_profile # {}

ContractIsValid ==
    /\ SchemaNonEmpty
    /\ RequiredFieldsNonEmpty
    /\ SharedTargetNames = {}
    /\ OffIndexPositions = {}
    /\ MissingIdentityFields = {}
    /\ ProfileNonEmpty

IssuesOf(text) ==
    {i \in DOMAIN validate_result.value.issues : validate_result.value.issues[i].issue = text}

\* C15: validator verdict. validate_contract never raises; it returns
\* (is_valid, issues) with is_valid true iff issues is empty, and is_valid is
\* true exactly when the schema is non-empty, every column has non-empty
\* source_name, target_name and target type, no two columns share a
\* target_name, every column_index equals its position, the five identity
\* fields are present and non-empty, and the statistical profile is non-empty.
C15_ValidatorVerdict ==
    Validated =>
        /\ validate_result.kind = "return"
        /\ validate_result.value.is_valid <=> (validate_result.value.issues = << >>)
        /\ validate_result.value.is_valid <=> ContractIsValid

\* C16: the validator accumulates. In the list a call returns, every
\* violated check has at least one issue: an empty physical schema, a missing
\* or empty required identity field, an empty statistical profile, a column
\* with an empty required field, shared target names, an index off its
\* position.
C16_ValidatorAccumulates ==
    (Validated /\ validate_result.kind = "return") =>
        /\ ~SchemaNonEmpty => IssuesOf("Physical schema is empty") # {}
        /\ MissingIdentityFields # {} => IssuesOf("Identity missing required field") # {}
        /\ ~ProfileNonEmpty => IssuesOf("Statistical profile is empty") # {}
        /\ SharedTargetNames \ {""} # {} => IssuesOf("Duplicate target names found") # {}
        /\ OffIndexPositions # {} => IssuesOf("Column has non-sequential index") # {}
        /\ ~RequiredFieldsNonEmpty =>
              IssuesOf("Column missing source_name")
                 \cup IssuesOf("Column missing target_name")
                 \cup IssuesOf("Column missing data_type") # {}

\* C17: duplicate detection. When two or more columns share a target_name,
\* the call returns is_valid = false and exactly one duplicate-names issue,
\* which reports the set of the names that occur more than once; when all
\* target names are distinct, a call that returns reports no such issue.
C17_DuplicateDetection ==
    Validated =>
        /\ SharedTargetNames # {} =>
              /\ validate_result.kind = "return"
              /\ ~validate_result.value.is_valid
              /\ Cardinality(IssuesOf("Duplicate target names found")) = 1
              /\ \A i \in IssuesOf("Duplicate target names found") :
                    validate_result.value.issues[i].names = SharedTargetNames
        /\ (SharedTargetNames = {} /\ validate_result.kind = "return") =>
              IssuesOf("Duplicate target names found") = {}

\* C18: sequential-index detection. For a contract with a non-empty physical
\* schema the call returns, with exactly one non-sequential-index issue for
\* every column whose column_index differs from its position and none for the
\* other columns; any column off its position makes the contract invalid.
C18_SequentialIndexDetection ==
    (Validated /\ SchemaNonEmpty) =>
        /\ validate_result.kind = "return"
        /\ \A p \in 0..(Len(contract.physical_schema) - 1) :
              Cardinality({i \in IssuesOf("Column has non-sequential index") :
                              validate_result.value.issues[i].idx = p})
                 = IF p \in OffIndexPositions THEN 1 ELSE 0
        /\ OffIndexPositions # {} => ~validate_result.value.is_valid

\* ------------------------------------------------------------------------
\* core/contract_builder.py: create_metadata_contract
\* ------------------------------------------------------------------------
\* dict.update(other): the keys of other are set last
Update(d, other) ==
    [k \in DOMAIN d \cup DOMAIN other |-> IF k \in DOMAIN other THEN other[k] ELSE d[k]]

\* `if additional_metadata:` -- neither None nor an empty dict
DictTruthy(d) == ~IsNone(d) /\ DOMAIN d # {}

\* the identity dict before the extension keys are merged
BaseIdentity(args, now) ==
    [table_name |-> args.table_name,
     version |-> args.version,
     created_at |-> PyStr(now),
     source_path |-> args.source_path,
     target_path |-> args.target_path,
     created_by |-> args.created_by]

\* mutant: the extension keys are merged first, the arguments and the
\* timestamp are set last
create_metadata_contract_arguments_last(args, now) ==
    MetadataContract(
        [identity |-> IF DictTruthy(args.additional_metadata)
                      THEN Update(args.additional_metadata, BaseIdentity(args, now))
                      ELSE BaseIdentity(args, now),
         physical_schema |-> args.physical_schema,
         statistical_profile |-> args.statistical_profile,
         llm_usage |-> args.llm_usage,
         column_roles |-> args.column_roles])

create_metadata_contract(args, now) ==
    MetadataContract(
        [identity |-> IF DictTruthy(args.additional_metadata)
                      THEN Update(BaseIdentity(args, now), args.additional_metadata)
                      ELSE BaseIdentity(args, now),
         physical_schema |-> args.physical_schema,
         statistical_profile |-> args.statistical_profile,
         llm_usage |-> args.llm_usage,
         column_roles |-> args.column_roles])

\* ------------------------------------------------------------------------
\* Assembly: the arguments and the clock are drawn at Init, the step is the
\* call
\* ------------------------------------------------------------------------
AdditionalMetadata ==
    {NoneObj,
     EmptyDict,
     [environment |-> PyStr("production"), team |-> PyStr("data-engineering")],
     [table_name |-> PyStr("renamed")],
     [created_at |-> PyStr("1999-12-31T00:00:00"), environment |-> PyStr("production")],
     [created_by |-> PyNone, version |-> PyInt(2)]}

ColumnRoleLists ==
    {PyNone,
     PyList(<<ColumnRole("x", "primary_key", "Unique identifier from vendor CRM")>>)}

CreateArgs ==
    [table_name : {PyStr("test"), PyStr("sales")},
     version : {PyStr("1.0.0")},
     source_path : {PyStr("/in.csv")},
     target_path : {PyStr("/out.parquet")},
     physical_schema : SeqsUpTo({SchemaColumn("a", "x", "Int64", 0)}, 1),
     statistical_profile : StatisticalProfiles,
     created_by : {PyStr("test@example.com"), PyStr("")},
     llm_usage : {PyNone, [type |-> "dict", total_tokens |-> 1650]},
     column_roles : ColumnRoleLists,
     additional_metadata : AdditionalMetadata]

Timestamps == {"2026-01-10T12:00:00", "2026-01-10T12:00:01"}

InitCreate ==
    /\ create_args \in CreateArgs
    /\ clock \in Timestamps
    /\ create_result = NotCalled
    /\ BuildIdle
    /\ TransformIdle
    /\ ValidateIdle
    /\ ExportIdle
    /\ MapperIdle
    /\ ApprovalIdle

\* the call create_metadata_contract(**create_args)
CreateMetadataContract ==
    /\ create_result = NotCalled
    /\ create_result' = create_metadata_contract(create_args, clock)
    /\ UNCHANGED <<create_args, clock>>
    /\ UNCHANGED <<build_inputs, build_results, transform_vars, validate_vars, export_vars>>
    /\ UNCHANGED <<mapper_vars, approval_vars>>

NextCreate == CreateMetadataContract

SpecCreate == InitCreate /\ [][NextCreate]_vars

Created == create_result # NotCalled

\* the keys the function sets from its arguments and the clock
ArgumentKeys == {"table_name", "version", "created_at", "source_path", "target_path", "created_by"}

\* the extension keys that take part in the merge
ExtensionKeys ==
    IF DictTruthy(create_args.additional_metadata)
    THEN DOMAIN create_args.additional_metadata
    ELSE {}

\* C19: identity assembly. The call returns a contract whose identity has
\* exactly the six argument keys and the extension keys; an extension key has
\* the extension value, also when it collides with an argument key or with
\* created_at; every other key has the argument value, created_at the stamped
\* clock reading.
C19_IdentityAssembly ==
    Created =>
        /\ create_result.kind = "return"
        /\ DOMAIN create_result.value.identity = ArgumentKeys \cup ExtensionKeys
        /\ \A k \in ExtensionKeys :
              create_result.value.identity[k] = create_args.additional_metadata[k]
        /\ \A k \in ArgumentKeys \ ExtensionKeys :
              create_result.value.identity[k] =
                  IF k = "created_at" THEN PyStr(clock) ELSE create_args[k]

\* a call whose extension keys collide with an argument key, with another
\* value
C19_Witness ==
    /\ Created
    /\ \E k \in ExtensionKeys \cap ArgumentKeys :
          /\ k # "created_at"
          /\ create_args.additional_metadata[k] # create_args[k]
          /\ create_result.value.identity[k] = create_args.additional_metadata[k]

\* ------------------------------------------------------------------------
\* pydantic: model_dump_json and model_validate_json of MetadataContract
\* ------------------------------------------------------------------------
\* JSON values
JString(s) == [json |-> "string", str |-> s]

JNumber(n) == [json |-> "number", int |-> n]

JFloat(repr) == [json |-> "number", float |-> repr]

JBool(b) == [json |-> "boolean", bool |-> b]

JNull == [json |-> "null"]

JArray(items) == [json |-> "array", items |-> items]

JObject(members) == [json |-> "object", members |-> members]

\* further Python values a Dict[str, Any] can hold: a float (by its repr)
\* and a nested dict
PyFloat(repr) == [type |-> "float", float |-> repr]

PyDict(items) == [type |-> "dict", items |-> items]

NonFinite == {"inf", "-inf", "nan"}

\* serialization of a value typed Any, by its runtime type: a datetime
\* becomes its ISO string, a tuple an array, a non-finite float null
RECURSIVE ToJson(_)
ToJson(v) ==
    CASE v.type = "str" -> JString(v.str)
      [] v.type = "int" -> JNumber(v.int)
      [] v.type = "float" -> IF v.float \in NonFinite THEN JNull ELSE JFloat(v.float)
      [] v.type = "NoneType" -> JNull
      [] v.type = "datetime" -> JString(v.isoformat)
      [] v.type \in {"tuple", "list"} -> JArray([i \in DOMAIN v.items |-> ToJson(v.items[i])])
      [] v.type = "dict" -> JObject([k \in DOMAIN v.items |-> ToJson(v.items[k])])

\* validation of a JSON value against Any
RECURSIVE FromJson(_)
FromJson(j) ==
    CASE j.json = "string" -> PyStr(j.str)
      [] j.json = "number" -> IF "int" \in DOMAIN j THEN PyInt(j.int) ELSE PyFloat(j.float)
      [] j.json = "null" -> PyNone
      [] j.json = "array" -> PyList([i \in DOMAIN j.items |-> FromJson(j.items[i])])
      [] j.json = "object" -> PyDict([k \in DOMAIN j.members |-> FromJson(j.members[k])])

\* a field declared str, Optional[str], bool or int
DumpField(field, value) ==
    IF field = "is_nullable" THEN JBool(value)
    ELSE IF field = "column_index" THEN JNumber(value)
    ELSE IF value = None THEN JNull
    ELSE JString(value)

DumpModel(obj) == JObject([f \in DOMAIN obj |-> DumpField(f, obj[f])])

DumpDict(d) == JObject([k \in DOMAIN d |-> ToJson(d[k])])

\* mutant: exclude_none=True, the keys whose value is None are left out
model_dump_json_exclude_none(c) ==
    JObject(
        [identity |-> DumpDict(Without(c.identity, {k \in DOMAIN c.identity : c.identity[k] = PyNone})),
         physical_schema |->
             JArray([i \in DOMAIN c.physical_schema |-> DumpModel(c.physical_schema[i])]),
         statistical_profile |-> DumpDict(c.statistical_profile),
         column_roles |->
             IF c.column_roles = PyNone THEN JNull
             ELSE JArray([i \in DOMAIN c.column_roles.items |->
                             DumpModel(c.column_roles.items[i])])])

\* contract.model_dump_json(indent=indent): the JSON document
model_dump_json(c) ==
    JObject(
        [identity |-> DumpDict(c.identity),
         physical_schema |->
             JArray([i \in DOMAIN c.physical_schema |-> DumpModel(c.physical_schema[i])]),
         statistical_profile |-> DumpDict(c.statistical_profile),
         column_roles |->
             IF c.column_roles = PyNone THEN JNull
             ELSE JArray([i \in DOMAIN c.column_roles.items |->
                             DumpModel(c.column_roles.items[i])])])

\* the JSON types a declared field accepts
JsonTypesOf(field) ==
    IF field = "is_nullable" THEN {"boolean"}
    ELSE IF field = "column_index" THEN {"number"}
    ELSE IF field \in PhysicalColumnOptional \cup {"description"} THEN {"string", "null"}
    ELSE {"string"}

LoadField(j) ==
    CASE j.json = "string" -> j.str
      [] j.json = "null" -> None
      [] j.json = "boolean" -> j.bool
      [] j.json = "number" -> j.int

\* a JSON object whose members have the types of the declared fields, as
\* keyword arguments
WellTyped(j) ==
    /\ j.json = "object"
    /\ \A f \in DOMAIN j.members : j.members[f].json \in JsonTypesOf(f)

LoadKwargs(j) == [f \in DOMAIN j.members |-> LoadField(j.members[f])]

LoadPhysicalColumn(j) ==
    IF WellTyped(j)
    THEN PhysicalColumn(LoadKwargs(j))
    ELSE Raise("ValidationError: PhysicalColumn")

LoadColumnRole(j) ==
    IF WellTyped(j) /\ {"column_name", "role_type"} \subseteq DOMAIN j.members
    THEN Return(ColumnRole(LoadField(j.members.column_name),
                           LoadField(j.members.role_type),
                           IF "description" \in DOMAIN j.members
                           THEN LoadField(j.members.description)
                           ELSE None))
    ELSE Raise("ValidationError: ColumnRole")

\* the shape MetadataContract asks of the document
WellFormedContract(j) ==
    /\ j.json = "object"
    /\ MetadataContractRequired \subseteq DOMAIN j.members
    /\ j.members.identity.json = "object"
    /\ j.members.statistical_profile.json = "object"
    /\ j.members.physical_schema.json = "array"
    /\ \A i \in DOMAIN j.members.physical_schema.items :
          LoadPhysicalColumn(j.members.physical_schema.items[i]).kind = "return"
    /\ "column_roles" \in DOMAIN j.members =>
          \/ j.members.column_roles.json = "null"
          \/ /\ j.members.column_roles.json = "array"
             /\ \A i \in DOMAIN j.members.column_roles.items :
                   LoadColumnRole(j.members.column_roles.items[i]).kind = "return"

\* content of a file: a complete JSON document, or the beginning of one
Complete(j) == [complete |-> TRUE, json |-> j]

Truncated == [complete |-> FALSE]

\* MetadataContract.model_validate_json(json_data)
model_validate_json(json_data) ==
    IF ~json_data.complete
    THEN Raise("ValidationError: Invalid JSON")
    ELSE IF ~WellFormedContract(json_data.json)
    THEN Raise("ValidationError: MetadataContract")
    ELSE LET m == json_data.json.members
         IN  MetadataContract(
                 [identity |-> FromJson(m.identity).items,
                  physical_schema |->
                      [i \in DOMAIN m.physical_schema.items |->
                          LoadPhysicalColumn(m.physical_schema.items[i]).value],
                  statistical_profile |-> FromJson(m.statistical_profile).items,
                  column_roles |->
                      IF "column_roles" \notin DOMAIN m \/ m.column_roles.json = "null"
                      THEN PyNone
                      ELSE PyList([i \in DOMAIN m.column_roles.items |->
                                      LoadColumnRole(m.column_roles.items[i]).value])])

\* ------------------------------------------------------------------------
\* core/export.py: save_metadata_contract, load_metadata_contract
\* ------------------------------------------------------------------------
\* output_path.parent
Parent(path) ==
    IF path \in {"out/contract.json", "out/data.parquet", "out/data_metadata.json"} THEN "out"
    ELSE IF path = "output/data.parquet" THEN "output"
    ELSE IF path = "output/_metadata/data.json" THEN "output/_metadata"
    ELSE "."

\* what the file system does to one call: everything works, mkdir fails,
\* the file cannot be opened, or the write stops after the file was opened
IoOutcomes == {"ok", "mkdir_fails", "open_fails", "write_fails"}

\* the files after path has been written
Write(fs, path, content) ==
    [p \in DOMAIN fs \cup {path} |-> IF p = path THEN content ELSE fs[p]]

\* an object of a class pydantic has no serializer for
PyObject == [type |-> "object"]

\* the values model_dump_json serializes; any other raises
\* PydanticSerializationError
RECURSIVE Serializable(_)
Serializable(v) ==
    CASE v.type \in {"tuple", "list"} -> \A i \in DOMAIN v.items : Serializable(v.items[i])
      [] v.type = "dict" -> \A k \in DOMAIN v.items : Serializable(v.items[k])
      [] OTHER -> v.type # "object"

ContractSerializable(c) ==
    /\ Serializable(PyDict(c.identity))
    /\ Serializable(PyDict(c.statistical_profile))

\* mutant: a contract with an empty physical schema is rejected
save_metadata_contract_validating(c, output_path, fs, ds, io) ==
    IF IsNone(c)
    THEN [outcome |-> Raise("ValueError: Contract cannot be None"), files |-> fs, dirs |-> ds]
    ELSE IF Len(c.physical_schema) = 0
    THEN [outcome |-> Raise("ValueError: Contract is invalid"), files |-> fs, dirs |-> ds]
    ELSE IF Parent(output_path) \notin ds /\ io = "mkdir_fails"
    THEN [outcome |-> Raise("OSError: mkdir"), files |-> fs, dirs |-> ds]
    ELSE IF io = "ok"
    THEN [outcome |-> Return(output_path),
          files |-> Write(fs, output_path, Complete(model_dump_json(c))),
          dirs |-> ds \cup {Parent(output_path)}]
    ELSE [outcome |-> Raise("IOError: Failed to write JSON"),
          files |-> IF io = "write_fails" THEN Write(fs, output_path, Truncated) ELSE fs,
          dirs |-> ds \cup {Parent(output_path)}]

\* save_metadata_contract(c, output_path) on the file system <<fs, ds>>:
\* the outcome, and the file system after the call
save_metadata_contract(c, output_path, fs, ds, io) ==
    IF IsNone(c)
    THEN [outcome |-> Raise("ValueError: Contract cannot be None"), files |-> fs, dirs |-> ds]
    ELSE IF Parent(output_path) \notin ds /\ io = "mkdir_fails"
    THEN [outcome |-> Raise("OSError: mkdir"), files |-> fs, dirs |-> ds]
    ELSE IF ~ContractSerializable(c)
    THEN [outcome |-> Raise("IOError: Failed to write JSON"),
          files |-> fs, dirs |-> ds \cup {Parent(output_path)}]
    ELSE IF io = "open_fails"
    THEN [outcome |-> Raise("IOError: Failed to write JSON"),
          files |-> fs, dirs |-> ds \cup {Parent(output_path)}]
    ELSE IF io = "write_fails"
    THEN [outcome |-> Raise("IOError: Failed to write JSON"),
          files |-> Write(fs, output_path, Truncated),
          dirs |-> ds \cup {Parent(output_path)}]
    ELSE [outcome |-> Return(output_path),
          files |-> Write(fs, output_path, Complete(model_dump_json(c))),
          dirs |-> ds \cup {Parent(output_path)}]

\* load_metadata_contract(input_path) on the files fs
load_metadata_contract(input_path, fs, io) ==
    IF input_path \notin DOMAIN fs
    THEN Raise("IOError: Metadata contract file not found")
    ELSE IF io # "ok" \/ model_validate_json(fs[input_path]).kind = "raise"
    THEN Raise("ValueError: Failed to parse metadata contract")
    ELSE model_validate_json(fs[input_path])

\* ------------------------------------------------------------------------
\* Persistence: the contract and the files are drawn at Init, every step is
\* one call of save_metadata_contract or of load_metadata_contract
\* ------------------------------------------------------------------------
MaxExportCalls == 2

Paths == {"contract.json", "out/contract.json"}

ExportIdentities ==
    {[table_name |-> PyStr("test_data"), version |-> PyStr("1.0.0")],
     [FullIdentity EXCEPT !.created_by = PyNone],
     [table_name |-> PyStr("test_data"), approved_at |-> PyDatetime("2026-01-10T12:00:00")],
     [table_name |-> PyStr("test_data"), owners |-> PyTuple(<<PyStr("a"), PyStr("b")>>)],
     [table_name |-> PyStr("test_data"), source |-> PyObject]}

ExportSchemas ==
    {<< >>,
     <<SchemaColumn("a", "a", "Int64", 0)>>,
     <<PhysicalColumn([source_name |-> "a", target_name |-> "x", source_type |-> "String",
                       target_type |-> "Int64", is_nullable |-> TRUE, role |-> "primary_key",
                       ai_suggested_name |-> "y", user_override_name |-> "x",
                       ai_suggested_type |-> "Int64", column_index |-> 0]).value,
       SchemaColumn("b", "b", "Float64", 1)>>}

\* statistical profiles as the app assembles them from the profiler's output
ExportProfiles ==
    {EmptyDict,
     [row_count |-> PyInt(100)],
     [row_count |-> PyInt(100),
      columns |-> PyList(<<PyDict([name |-> PyStr("a"), null_ratio |-> PyFloat("0.05"),
                                   top_values_sample |-> PyList(<<PyStr("1 (20)")>>),
                                   max |-> PyFloat("999.99")])>>)],
     [row_count |-> PyInt(100),
      columns |-> PyList(<<PyDict([name |-> PyStr("a"), max |-> PyFloat("inf")])>>)]}

ExportContracts ==
    {MetadataContract([identity |-> i, physical_schema |-> sch, statistical_profile |-> p,
                       column_roles |-> r]).value :
        i \in ExportIdentities, sch \in ExportSchemas, p \in ExportProfiles,
        r \in ColumnRoleLists}

InitialFiles ==
    {EmptyDict,
     [p \in {"contract.json"} |->
         Complete(model_dump_json(MetadataContract([identity |-> FullIdentity,
             physical_schema |-> << >>, statistical_profile |-> EmptyDict]).value))],
     [p \in {"contract.json"} |-> Truncated]}

InitExport ==
    /\ contract \in ExportContracts \cup {NoneObj}
    /\ files \in InitialFiles
    /\ dirs = {"."}
    /\ export_calls = << >>
    /\ validate_result = NotCalled
    /\ BuildIdle
    /\ TransformIdle
    /\ CreateIdle
    /\ MapperIdle
    /\ ApprovalIdle

ExportCall(call, path, io, outcome) == [call |-> call, path |-> path, io |-> io, outcome |-> outcome]

\* one call save_metadata_contract(contract, output_path)
SaveMetadataContract ==
    /\ Len(export_calls) < MaxExportCalls
    /\ \E output_path \in Paths, io \in IoOutcomes :
          LET saved == save_metadata_contract(contract, output_path, files, dirs, io)
          IN  /\ files' = saved.files
              /\ dirs' = saved.dirs
              /\ export_calls' = Append(export_calls,
                     ExportCall("save_metadata_contract", output_path, io, saved.outcome))
    /\ UNCHANGED <<contract, validate_result>>
    /\ UNCHANGED <<build_inputs, build_results, transform_vars, create_vars>>
    /\ UNCHANGED <<mapper_vars, approval_vars>>

\* one call load_metadata_contract(input_path)
LoadMetadataContract ==
    /\ Len(export_calls) < MaxExportCalls
    /\ \E input_path \in Paths, io \in {"ok", "read_fails"} :
          export_calls' = Append(export_calls,
              ExportCall("load_metadata_contract", input_path, io,
                         load_metadata_contract(input_path, files, io)))
    /\ UNCHANGED <<files, dirs>>
    /\ UNCHANGED <<contract, validate_result>>
    /\ UNCHANGED <<build_inputs, build_results, transform_vars, create_vars>>
    /\ UNCHANGED <<mapper_vars, approval_vars>>

NextExport == SaveMetadataContract \/ LoadMetadataContract

SpecExport == InitExport /\ [][NextExport]_vars

\* ------------------------------------------------------------------------
\* Claims about save_metadata_contract and load_metadata_contract
\* ------------------------------------------------------------------------
\* call i saved the contract, call j read the file it wrote, and no call in
\* between wrote to that path
SavedThenLoaded(i, j) ==
    /\ i < j
    /\ export_calls[i].call = "save_metadata_contract"
    /\ export_calls[i].outcome.kind = "return"
    /\ export_calls[j].call = "load_metadata_contract"
    /\ export_calls[j].path = export_calls[i].path
    /\ export_calls[j].io = "ok"
    /\ \A k \in (i + 1)..(j - 1) :
          ~(/\ export_calls[k].call = "save_metadata_contract"
            /\ export_calls[k].path = export_calls[i].path)

RoundTrips ==
    \A i, j \in DOMAIN export_calls :
        SavedThenLoaded(i, j) => export_calls[j].outcome = Return(contract)

\* values that JSON holds as they are: str, int, finite float, None, and
\* lists and dicts of such values
RECURSIVE JsonNative(_)
JsonNative(v) ==
    CASE v.type \in {"str", "int", "NoneType"} -> TRUE
      [] v.type = "float" -> v.float \notin NonFinite
      [] v.type = "list" -> \A i \in DOMAIN v.items : JsonNative(v.items[i])
      [] v.type = "dict" -> \A k \in DOMAIN v.items : JsonNative(v.items[k])
      [] OTHER -> FALSE

ContractJsonNative ==
    /\ ~IsNone(contract)
    /\ JsonNative(PyDict(contract.identity))
    /\ JsonNative(PyDict(contract.statistical_profile))

\* C20 (as stated): round trip. For every contract, a successful save
\* followed by a load of the written file gives a contract equal to the
\* original.
C20_RoundTrip == RoundTrips

\* C20 (amended): round trip of JSON-native contracts. When every value of
\* the identity and of the statistical profile is a str, an int, a finite
\* float, None, or a list or str-keyed dict of such values, a successful save
\* followed by a load of the written file gives a contract equal to the
\* original: same identity, physical schema, statistical profile and column
\* roles.
C20_RoundTripJsonNative == ContractJsonNative => RoundTrips

\* a contract with provenance fields, a nested profile and column roles,
\* saved and reloaded as an equal contract
C20_Witness ==
    /\ ContractJsonNative
    /\ Len(export_calls) = 2
    /\ SavedThenLoaded(1, 2)
    /\ export_calls[2].outcome = Return(contract)
    /\ Len(contract.physical_schema) = 2
    /\ contract.column_roles # PyNone
    /\ "columns" \in DOMAIN contract.statistical_profile

\* ------------------------------------------------------------------------
\* Type mapping: every step is one call of _get_polars_dtype
\* ------------------------------------------------------------------------
MaxDtypeCalls == 2

\* type names: the canonical ones, the ones with the Decimal prefix, others
TypeNames ==
    DOMAIN dtype_map \cup DecimalPrefixed
        \cup {"", "int64", "Integer", "VARCHAR", "decimal(10,2)", "List(Int64)", "Float", " Int64"}

InitMapper ==
    /\ dtype_calls = << >>
    /\ BuildIdle
    /\ TransformIdle
    /\ ValidateIdle
    /\ CreateIdle
    /\ ExportIdle
    /\ ApprovalIdle

\* one call _get_polars_dtype(dtype_str)
GetPolarsDtype ==
    /\ Len(dtype_calls) < MaxDtypeCalls
    /\ \E dtype_str \in TypeNames :
          dtype_calls' = Append(dtype_calls,
              [dtype_str |-> dtype_str, outcome |-> Return(_get_polars_dtype(dtype_str))])
    /\ UNCHANGED <<build_inputs, build_results, transform_vars, validate_vars>>
    /\ UNCHANGED <<create_vars, export_vars, approval_vars>>

NextMapper == GetPolarsDtype

SpecMapper == InitMapper /\ [][NextMapper]_vars

\* ------------------------------------------------------------------------
\* Claims about _get_polars_dtype
\* ------------------------------------------------------------------------
\* str(pl.Decimal(precision, scale))
DecimalType(precision, scale) ==
    "Decimal(precision=" \o ToString(precision) \o ", scale=" \o ToString(scale) \o ")"

\* the names of the form Decimal(<digits>,<digits>), with the two numbers
DecimalForms ==
    "Decimal(10,2)" :> <<10, 2>> @@ "Decimal(12,4)" :> <<12, 4>> @@ "Decimal(10, 2)" :> <<10, 2>>

\* the concrete types: the entries of the canonical table and the
\* fixed-point types
ConcreteTypes ==
    {dtype_map[n] : n \in DOMAIN dtype_map}
        \cup {"Decimal"}
        \cup {DecimalType(DecimalForms[n][1], DecimalForms[n][2]) : n \in DOMAIN DecimalForms}

ParquetFile(d) == [complete |-> TRUE, parquet |-> d]

\* generate_parquet(d, output_path) on the file system <<fs, ds>>: the
\* outcome, and the file system after the call
generate_parquet(d, output_path, fs, ds, io) ==
    IF IsNone(d) \/ IsEmpty(d)
    THEN [outcome |-> Raise("ValueError: DataFrame cannot be None or empty"),
          files |-> fs, dirs |-> ds]
    ELSE IF Parent(output_path) \notin ds /\ io = "mkdir_fails"
    THEN [outcome |-> Raise("OSError: mkdir"), files |-> fs, dirs |-> ds]
    ELSE IF io = "open_fails"
    THEN [outcome |-> Raise("IOError: Failed to write Parquet file"),
          files |-> fs, dirs |-> ds \cup {Parent(output_path)}]
    ELSE IF io = "write_fails"
    THEN [outcome |-> Raise("IOError: Failed to write Parquet file"),
          files |-> Write(fs, output_path, Truncated),
          dirs |-> ds \cup {Parent(output_path)}]
    ELSE [outcome |-> Return(output_path),
          files |-> Write(fs, output_path, ParquetFile(d)),
          dirs |-> ds \cup {Parent(output_path)}]

\* output_prefix.with_suffix(".parquet")
ParquetPath(output_prefix) ==
    IF output_prefix = "out/data" THEN "out/data.parquet" ELSE "data.parquet"

\* output_prefix.parent / f"{output_prefix.name}_metadata.json"
MetadataPath(output_prefix) ==
    IF output_prefix = "out/data" THEN "out/data_metadata.json" ELSE "data_metadata.json"

\* mutant: the metadata file is written first, the Parquet file second
generate_outputs_metadata_first(d, c, output_prefix, fs, ds, io_parquet, io_metadata) ==
    IF IsNone(d) \/ IsNone(c)
    THEN [outcome |-> Raise("ValueError: DataFrame and contract cannot be None"),
          files |-> fs, dirs |-> ds]
    ELSE LET metadata == save_metadata_contract(c, MetadataPath(output_prefix), fs, ds,
                                                io_metadata)
             parquet == generate_parquet(d, ParquetPath(output_prefix), metadata.files,
                                         metadata.dirs, io_parquet)
         IN  IF metadata.outcome.kind = "raise"
             THEN metadata
             ELSE IF parquet.outcome.kind = "raise"
             THEN parquet
             ELSE [outcome |-> Return([parquet |-> parquet.outcome.value,
                                       metadata |-> metadata.outcome.value]),
                   files |-> parquet.files, dirs |-> parquet.dirs]

\* generate_outputs(d, c, output_prefix): the Parquet file first, the
\* metadata file second, each on the file system the step before left
generate_outputs(d, c, output_prefix, fs, ds, io_parquet, io_metadata) ==
    IF IsNone(d) \/ IsNone(c)
    THEN [outcome |-> Raise("ValueError: DataFrame and contract cannot be None"),
          files |-> fs, dirs |-> ds]
    ELSE LET parquet == generate_parquet(d, ParquetPath(output_prefix), fs, ds, io_parquet)
             metadata == save_metadata_contract(c, MetadataPath(output_prefix),
                                                parquet.files, parquet.dirs, io_metadata)
         IN  IF parquet.outcome.kind = "raise"
             THEN parquet
             ELSE IF metadata.outcome.kind = "raise"
             THEN metadata
             ELSE [outcome |-> Return([parquet |-> parquet.outcome.value,
                                       metadata |-> metadata.outcome.value]),
                   files |-> metadata.files, dirs |-> metadata.dirs]

\* ------------------------------------------------------------------------
\* Output files: the dataset, the contract and the files are drawn at Init,
\* every step is one call of generate_parquet, save_metadata_contract or
\* generate_outputs
\* ------------------------------------------------------------------------
OutputFrames ==
    {NoneObj,
     DataFrame(<<Series("a", "Int64", {})>>, 0),
     DataFrame(<<Series("a", "Int64", {}), Series("b", "String", {})>>, 3)}

\* a contract that passes every check of the validator's list, and one with
\* an empty physical schema
OutputContracts ==
    {MetadataContract([identity |-> FullIdentity,
                       physical_schema |-> <<SchemaColumn("a", "a", "Int64", 0)>>,
                       statistical_profile |-> [row_count |-> PyInt(100)]]).value,
     MetadataContract([identity |-> EmptyDict, physical_schema |-> << >>,
                       statistical_profile |-> EmptyDict]).value}

\* no file yet, or the Parquet file of an earlier run
OutputFiles ==
    {EmptyDict,
     [p \in {"out/data.parquet"} |-> ParquetFile(DataFrame(<<Series("a", "Int64", {})>>, 1))]}

InitOutputs ==
    /\ df \in OutputFrames
    /\ physical_schema = << >>
    /\ transform_result = NotCalled
    /\ contract \in OutputContracts \cup {NoneObj}
    /\ validate_result = NotCalled
    /\ files \in OutputFiles
    /\ dirs = {"."} \cup {Parent(p) : p \in DOMAIN files}
    /\ export_calls = << >>
    /\ BuildIdle
    /\ CreateIdle
    /\ MapperIdle
    /\ ApprovalIdle

\* one call generate_parquet(df, output_path)
GenerateParquet ==
    /\ Len(export_calls) < MaxExportCalls
    /\ \E output_path \in {"data.parquet", "out/data.parquet"}, io \in IoOutcomes :
          LET written == generate_parquet(df, output_path, files, dirs, io)
          IN  /\ files' = written.files
              /\ dirs' = written.dirs
              /\ export_calls' = Append(export_calls,
                     ExportCall("generate_parquet", output_path, io, written.outcome))
    /\ UNCHANGED <<contract, validate_result, transform_vars>>
    /\ UNCHANGED <<build_inputs, build_results, create_vars, mapper_vars, approval_vars>>

\* one call generate_outputs(df, contract, output_prefix)
GenerateOutputs ==
    /\ Len(export_calls) < MaxExportCalls
    /\ \E output_prefix \in {"data", "out/data"}, io_parquet \in IoOutcomes,
          io_metadata \in IoOutcomes :
          LET written == generate_outputs(df, contract, output_prefix, files, dirs,
                                          io_parquet, io_metadata)
          IN  /\ files' = written.files
              /\ dirs' = written.dirs
              /\ export_calls' = Append(export_calls,
                     ExportCall("generate_outputs", output_prefix,
                                [parquet |-> io_parquet, metadata |-> io_metadata],
                                written.outcome))
    /\ UNCHANGED <<contract, validate_result, transform_vars>>
    /\ UNCHANGED <<build_inputs, build_results, create_vars, mapper_vars, approval_vars>>

NextOutputs == GenerateParquet \/ SaveMetadataContract \/ GenerateOutputs

SpecOutputs == InitOutputs /\ [][NextOutputs]_vars

\* ------------------------------------------------------------------------
\* Claims about the output files
\* ------------------------------------------------------------------------
LastExportCall == export_calls[Len(export_calls)]

\* the latest call is a call of the function, and its argument is there
\* (a dataset with rows, a contract)
LastWrote(call) ==
    /\ Len(export_calls) > 0
    /\ LastExportCall.call = call
    /\ IF call = "generate_parquet"
       THEN ~IsNone(df) /\ ~IsEmpty(df)
       ELSE ~IsNone(contract)

\* what a complete write of the latest call puts at its path
CompleteContent(call) ==
    IF call = "generate_parquet"
    THEN ParquetFile(df)
    ELSE Complete(model_dump_json(contract))

IoErrors ==
    {"OSError: mkdir", "IOError: Failed to write Parquet file", "IOError: Failed to write JSON"}

\* C22: file writes are all-or-nothing per file. A call of generate_parquet
\* or save_metadata_contract on a dataset or contract that is there has the
\* parent directory created once mkdir has not failed; it returns with the
\* complete content at the output path or raises an I/O error; and after a
\* raise the output path holds no partially written file.
C22_AllOrNothing ==
    \A call \in {"generate_parquet", "save_metadata_contract"} :
        LastWrote(call) =>
            LET path == LastExportCall.path
                outcome == LastExportCall.outcome
            IN  /\ outcome.error # "OSError: mkdir" => Parent(path) \in dirs
                /\ outcome.kind = "return" =>
                      /\ path \in DOMAIN files
                      /\ files[path] = CompleteContent(call)
                /\ outcome.kind = "raise" =>
                      /\ outcome.error \in IoErrors
                      /\ path \in DOMAIN files => files[path].complete

\* ------------------------------------------------------------------------
\* Claims about the log and the dataset apply_schema_transform returns
\* ------------------------------------------------------------------------
\* the columns the dataset is to have after the first k schema entries: an
\* entry whose source column is there renames it and, when its type differs
\* from target_type and the values convert, gives it the mapper's type
RECURSIVE ExpectedAfter(_)
ExpectedAfter(k) ==
    IF k = 0
    THEN df.columns
    ELSE LET prev == ExpectedAfter(k - 1)
             entry == physical_schema[k]
             dtype == _get_polars_dtype(entry.target_type)
         IN  [j \in DOMAIN prev |->
                IF prev[j].name # entry.source_name
                THEN prev[j]
                ELSE [prev[j] EXCEPT
                        !.name = entry.target_name,
                        !.dtype = IF prev[j].dtype # entry.target_type
                                     /\ dtype \notin prev[j].cast_fails
                                  THEN dtype
                                  ELSE @]]

\* the positions of the source column of entry i when the loop reaches it
PositionsBefore(i) ==
    {j \in DOMAIN df.columns :
        ExpectedAfter(i - 1)[j].name = physical_schema[i].source_name}

PresentBefore(i) == PositionsBefore(i) # {}

CastAttempted(i) ==
    \E j \in PositionsBefore(i) :
        ExpectedAfter(i - 1)[j].dtype # physical_schema[i].target_type

Tags(entry) == [a \in DOMAIN entry.actions |-> entry.actions[a].tag]

\* C24: action-list structure of the transformation log. A call on a dataset
\* with rows and a non-empty schema returns a log in which every entry has a
\* non-empty action list; SKIP is the sole action of an entry whose source
\* column is not in the current column set and appears nowhere else; the
\* entry of a present column has RENAME iff source_name differs from
\* target_name, has CAST or CAST_ERROR (never both) iff a cast was attempted,
\* with RENAME first; NO_CHANGE is the sole action iff the column is present
\* and neither renamed nor cast.
C24_ActionListStructure ==
    (Transformed /\ TransformInputsValid /\ RenamesDoNotCollide) =>
        /\ transform_result.kind = "return"
        /\ Len(transform_result.value.log) = Len(physical_schema)
        /\ \A i \in 1..Len(physical_schema) :
              LET entry == transform_result.value.log[i]
                  tags == Tags(entry)
                  renamed == physical_schema[i].source_name # physical_schema[i].target_name
              IN  /\ Len(tags) >= 1
                  /\ HasTag(entry, "SKIP") <=> ~PresentBefore(i)
                  /\ HasTag(entry, "SKIP") => tags = <<"SKIP">>
                  /\ PresentBefore(i) =>
                        /\ HasTag(entry, "RENAME") <=> renamed
                        /\ (HasTag(entry, "CAST") \/ HasTag(entry, "CAST_ERROR"))
                              <=> CastAttempted(i)
                        /\ ~(HasTag(entry, "CAST") /\ HasTag(entry, "CAST_ERROR"))
                        /\ HasTag(entry, "RENAME") => tags[1] = "RENAME"
                        /\ Len(tags) <= 2
                  /\ HasTag(entry, "NO_CHANGE") <=>
                        (PresentBefore(i) /\ ~renamed /\ ~CastAttempted(i))
                  /\ HasTag(entry, "NO_CHANGE") => tags = <<"NO_CHANGE">>

\* C25: effect of a successful transform. A call on a dataset with rows and
\* a non-empty schema returns a dataset with the columns and rows of the
\* input: every schema column that is not skipped is found under target_name
\* at the position its source column had, a cast is attempted iff the type
\* observed at that moment differs from target_type, a column whose entry
\* records CAST has the type the mapper gives for target_type, and a column
\* whose cast was not attempted or failed keeps its type.
C25_TransformEffect ==
    (Transformed /\ TransformInputsValid /\ RenamesDoNotCollide) =>
        /\ transform_result.kind = "return"
        /\ transform_result.value.df.height = df.height
        /\ transform_result.value.df.columns = ExpectedAfter(Len(physical_schema))
        /\ \A i \in 1..Len(physical_schema) :
              LET entry == transform_result.value.log[i]
              IN  \A j \in PositionsBefore(i) :
                      /\ ExpectedAfter(i)[j].name = physical_schema[i].target_name
                      /\ (HasTag(entry, "CAST") \/ HasTag(entry, "CAST_ERROR"))
                            <=> CastAttempted(i)
                      /\ HasTag(entry, "CAST") =>
                            ExpectedAfter(i)[j].dtype =
                                _get_polars_dtype(physical_schema[i].target_type)
                      /\ ~HasTag(entry, "CAST") =>
                            ExpectedAfter(i)[j].dtype = ExpectedAfter(i - 1)[j].dtype

\* C26: column presence is evaluated against the partially transformed
\* dataset. A call on a dataset with rows and a non-empty schema returns a
\* log in which an entry is a SKIP iff its source_name is not a column of
\* the dataset as the earlier entries of the run left it: an entry naming
\* the target of an earlier rename is applied, an entry naming a column that
\* was renamed away is skipped.
C26_PresenceAgainstCurrentColumns ==
    (Transformed /\ TransformInputsValid /\ RenamesDoNotCollide) =>
        /\ transform_result.kind = "return"
        /\ Len(transform_result.value.log) = Len(physical_schema)
        /\ \A i \in 1..Len(physical_schema) :
              HasTag(transform_result.value.log[i], "SKIP") <=> ~PresentBefore(i)

\* ------------------------------------------------------------------------
\* Claims about what save_metadata_contract accepts
\* ------------------------------------------------------------------------
SaveCalls == {k \in DOMAIN export_calls : export_calls[k].call = "save_metadata_contract"}

\* every contract that is given has its file written when the file system
\* works, and a missing contract is the only argument that is rejected
SavesWhateverIsGiven ==
    \A k \in SaveCalls :
        /\ IsNone(contract) <=>
              export_calls[k].outcome = Raise("ValueError: Contract cannot be None")
        /\ (~IsNone(contract) /\ export_calls[k].io = "ok") =>
              export_calls[k].outcome = Return(export_calls[k].path)
        /\ (k = Len(export_calls) /\ export_calls[k].outcome.kind = "return") =>
              files[export_calls[k].path] = Complete(model_dump_json(contract))

\* the contract fails a check of the validator's list
ContractInvalid ==
    \/ Len(contract.physical_schema) = 0
    \/ DOMAIN contract.statistical_profile = {}
    \/ \E field \in {required_identity[i] : i \in DOMAIN required_identity} :
          IdentityFieldMissing(contract.identity, field)

DtypesGiven ==
    \A i \in 1..Len(columns) :
        "dtype" \in DOMAIN columns[i] /\ columns[i].dtype \notin {None, ""}

\* C27: source type is carried through reconciliation. For valid profiles
\* and any AI type suggestion and user type override, the call returns one
\* physical column per profile whose source_type is the dtype of its
\* profile, so that source_type and target_type can differ.
C27_SourceTypeCarried ==
    (Built /\ ValidColumns /\ DtypesGiven) =>
        /\ ReturnedSchema
        /\ \A i \in 1..Len(columns) :
              LastBuild.value[i].source_type = columns[i].dtype

\* the contract create_metadata_contract assembles around a schema, with
\* non-empty identity arguments and a non-empty statistical profile
AssembledAround(schema) ==
    create_metadata_contract(
        [table_name |-> PyStr("test"),
         version |-> PyStr("1.0.0"),
         source_path |-> PyStr("/in.csv"),
         target_path |-> PyStr("/out.parquet"),
         physical_schema |-> schema,
         statistical_profile |-> CHOOSE p \in StatisticalProfiles : DOMAIN p # {},
         created_by |-> PyStr("test@example.com"),
         llm_usage |-> PyNone,
         column_roles |-> PyNone,
         additional_metadata |-> NoneObj],
        "2026-01-10T12:00:00")

\* C28: reconciliation followed by validation. For a non-empty list of
\* profiles with non-empty names and dtypes and any suggestions and
\* overrides, the call returns a schema (two columns resolving to one
\* target_name are neither rejected nor repaired) without an empty name, an
\* empty type or a non-sequential index, and the contract assembled around
\* it is reported valid iff its target names are pairwise distinct.
C28_ReconcileThenValidate ==
    (Built /\ ValidColumns /\ DtypesGiven) =>
        /\ ReturnedSchema
        /\ \A i \in 1..Len(columns) :
              /\ LastBuild.value[i].target_name \notin {None, ""}
              /\ LastBuild.value[i].target_type \notin {None, ""}
              /\ LastBuild.value[i].column_index = i - 1
        /\ AssembledAround(LastBuild.value).kind = "return"
        /\ LET verdict == validate_contract(AssembledAround(LastBuild.value).value)
           IN  /\ verdict.kind = "return"
               /\ verdict.value.is_valid <=>
                     \A i, j \in 1..Len(columns) :
                         i # j => LastBuild.value[i].target_name # LastBuild.value[j].target_name

\* ------------------------------------------------------------------------
\* Claims about generate_outputs
\* ------------------------------------------------------------------------
\* the step is a call of generate_outputs
OutputsStep ==
    /\ Len(export_calls') = Len(export_calls) + 1
    /\ export_calls'[Len(export_calls')].call = "generate_outputs"

\* the file at path is after the step what it was before it
Untouched(path) ==
    /\ path \in DOMAIN files' <=> path \in DOMAIN files
    /\ path \in DOMAIN files => files'[path] = files[path]

ParquetStepErrors ==
    {"ValueError: DataFrame cannot be None or empty", "OSError: mkdir",
     "IOError: Failed to write Parquet file"}

Resolved(override, suggestion, source) ==
    IF override # None THEN override
    ELSE IF suggestion # None THEN suggestion
    ELSE source

ReconciledColumn(idx, profile, naming_suggestions, type_suggestions, overrides) ==
    LET source_name        == profile.name
        source_type        == profile.dtype
        ai_suggested_name  == Get(naming_suggestions, source_name, None)
        ai_suggested_type  == Get(type_suggestions, source_name, None)
        user_override      == UserOverride(overrides, source_name)
        user_override_name == UserOverrideField(user_override, "name")
        user_override_type == UserOverrideField(user_override, "type")
    IN  PhysicalColumn(
            [source_name        |-> source_name,
             target_name        |-> Resolved(user_override_name, ai_suggested_name, source_name),
             source_type        |-> source_type,
             target_type        |-> Resolved(user_override_type, ai_suggested_type, source_type),
             is_nullable        |-> RatioPositive(profile.null_ratio),
             role               |-> Get(profile, "role", None),
             ai_suggested_name  |-> ai_suggested_name,
             user_override_name |-> user_override_name,
             ai_suggested_type  |-> ai_suggested_type,
             user_override_type |-> user_override_type,
             column_index       |-> idx]).value

build_physical_schema_with_overrides(profiles, naming, types, overrides) ==
    IF Len(profiles) = 0
    THEN Raise("ValueError: Columns list cannot be empty")
    ELSE IF \E i \in 1..Len(profiles) : NameMissing(profiles[i])
    THEN Raise("ValueError: Column missing required 'name' field")
    ELSE Return([i \in 1..Len(profiles) |->
                    ReconciledColumn(i - 1, profiles[i], NamingSuggestions(naming),
                                     TypeSuggestions(types), overrides)])

\* ------------------------------------------------------------------------
\* app.py: handle_approval
\* ------------------------------------------------------------------------
\* a profile of the profiler as a value of the statistical profile
ProfileValue(profile) ==
    PyDict([k \in DOMAIN profile |->
              IF k \in {"name", "dtype"} THEN PyStr(profile[k])
              ELSE IF k = "null_ratio"
              THEN PyFloat(ToString(profile[k][1]) \o "/" \o ToString(profile[k][2]))
              ELSE PyInt(profile[k])])

\* {"row_count": profile["row_count"], "columns": profile["columns"]}
StatisticalProfile(profile) ==
    [row_count |-> PyInt(profile.row_count),
     columns |-> PyList([i \in DOMAIN profile.columns |-> ProfileValue(profile.columns[i])])]

\* the calls of the handler, in the order of the source
ApprovalSteps ==
    <<"build_physical_schema_with_overrides", "create_metadata_contract",
      "validate_contract", "apply_schema_transform", "generate_parquet",
      "save_metadata_contract", "session_state">>

\* what one run of the handler leaves: the calls it made, whether
\* is_valid was obtained, the message shown, the session state and the files
Approval(reached, is_valid, message, ss, fs, ds) ==
    [steps |-> SubSeq(ApprovalSteps, 1, reached), is_valid |-> is_valid,
     message |-> message, session_state |-> ss, files |-> fs, dirs |-> ds]

ErrorGeneratingOutputs(error) == "Error generating outputs: " \o error

\* mutant: the overrides of the form are saved for the next iteration before
\* the outputs are generated
handle_approval_overrides_first(table_name, overrides, d, profile, naming, types, output_dir, now, ss, fs, ds, io_parquet, io_metadata) ==
    LET saved == Update(ss, [user_overrides |-> overrides])
        parquet_target == output_dir \o "/" \o table_name \o ".parquet"
        metadata_target == output_dir \o "/_metadata/" \o table_name \o ".json"
        final_physical_schema ==
            build_physical_schema_with_overrides(profile.columns, naming, types, overrides)
        created ==
            create_metadata_contract(
                [table_name |-> PyStr(table_name),
                 version |-> PyStr("1.0.0"),
                 source_path |-> PyStr("uploaded_file"),
                 target_path |-> PyStr(parquet_target),
                 physical_schema |-> final_physical_schema.value,
                 statistical_profile |-> StatisticalProfile(profile),
                 created_by |-> PyStr("user@example.com"),
                 llm_usage |-> PyNone,
                 column_roles |-> PyNone,
                 additional_metadata |-> NoneObj],
                now)
        verdict == validate_contract(created.value)
        transformed == apply_schema_transform(d, final_physical_schema.value)
        parquet == generate_parquet(transformed.value.df, parquet_target, fs, ds, io_parquet)
        metadata == save_metadata_contract(created.value, metadata_target,
                                           parquet.files, parquet.dirs, io_metadata)
    IN  IF final_physical_schema.kind = "raise"
        THEN Approval(1, "unknown", ErrorGeneratingOutputs(final_physical_schema.error),
                      saved, fs, ds)
        ELSE IF created.kind = "raise"
        THEN Approval(2, "unknown", ErrorGeneratingOutputs(created.error), saved, fs, ds)
        ELSE IF verdict.kind = "raise"
        THEN Approval(3, "unknown", ErrorGeneratingOutputs(verdict.error), saved, fs, ds)
        ELSE IF ~verdict.value.is_valid
        THEN Approval(3, "false", "Contract validation failed", saved, fs, ds)
        ELSE IF transformed.kind = "raise"
        THEN Approval(4, "true", ErrorGeneratingOutputs(transformed.error), saved, fs, ds)
        ELSE IF parquet.outcome.kind = "raise"
        THEN Approval(5, "true", ErrorGeneratingOutputs(parquet.outcome.error),
                      saved, parquet.files, parquet.dirs)
        ELSE IF metadata.outcome.kind = "raise"
        THEN Approval(6, "true", ErrorGeneratingOutputs(metadata.outcome.error),
                      saved, metadata.files, metadata.dirs)
        ELSE Approval(7, "true", "Outputs generated successfully!",
                      Update(saved, [contract |-> created.value,
                                     parquet_path |-> parquet.outcome.value,
                                  metadata_path |-> metadata.outcome.value,
                                  transformation_log |-> transformed.value.log,
                                  user_overrides |-> overrides]),
                      metadata.files, metadata.dirs)

\* handle_approval(table_name, user_overrides, df, profile, naming_report,
\* type_report, output_dir) with session state ss on the file system <<fs, ds>>
handle_approval(table_name, overrides, d, profile, naming, types, output_dir, now, ss, fs, ds, io_parquet, io_metadata) ==
    LET parquet_target == output_dir \o "/" \o table_name \o ".parquet"
        metadata_target == output_dir \o "/_metadata/" \o table_name \o ".json"
        final_physical_schema ==
            build_physical_schema_with_overrides(profile.columns, naming, types, overrides)
        created ==
            create_metadata_contract(
                [table_name |-> PyStr(table_name),
                 version |-> PyStr("1.0.0"),
                 source_path |-> PyStr("uploaded_file"),
                 target_path |-> PyStr(parquet_target),
                 physical_schema |-> final_physical_schema.value,
                 statistical_profile |-> StatisticalProfile(profile),
                 created_by |-> PyStr("user@example.com"),
                 llm_usage |-> PyNone,
                 column_roles |-> PyNone,
                 additional_metadata |-> NoneObj],
                now)
        verdict == validate_contract(created.value)
        transformed == apply_schema_transform(d, final_physical_schema.value)
        parquet == generate_parquet(transformed.value.df, parquet_target, fs, ds, io_parquet)
        metadata == save_metadata_contract(created.value, metadata_target,
                                           parquet.files, parquet.dirs, io_metadata)
    IN  IF final_physical_schema.kind = "raise"
        THEN Approval(1, "unknown", ErrorGeneratingOutputs(final_physical_schema.error),
                      ss, fs, ds)
        ELSE IF created.kind = "raise"
        THEN Approval(2, "unknown", ErrorGeneratingOutputs(created.error), ss, fs, ds)
        ELSE IF verdict.kind = "raise"
        THEN Approval(3, "unknown", ErrorGeneratingOutputs(verdict.error), ss, fs, ds)
        ELSE IF ~verdict.value.is_valid
        THEN Approval(3, "false", "Contract validation failed", ss, fs, ds)
        ELSE IF transformed.kind = "raise"
        THEN Approval(4, "true", ErrorGeneratingOutputs(transformed.error), ss, fs, ds)
        ELSE IF parquet.outcome.kind = "raise"
        THEN Approval(5, "true", ErrorGeneratingOutputs(parquet.outcome.error),
                      ss, parquet.files, parquet.dirs)
        ELSE IF metadata.outcome.kind = "raise"
        THEN Approval(6, "true", ErrorGeneratingOutputs(metadata.outcome.error),
                      ss, metadata.files, metadata.dirs)
        ELSE Approval(7, "true", "Outputs generated successfully!",
                      Update(ss, [contract |-> created.value,
                                  parquet_path |-> parquet.outcome.value,
                                  metadata_path |-> metadata.outcome.value,
                                  transformation_log |-> transformed.value.log,
                                  user_overrides |-> overrides]),
                      metadata.files, metadata.dirs)

\* ------------------------------------------------------------------------
\* Approval: the uploaded dataset with its profile, the two AI reports, the
\* overrides of the form and the output directory are drawn at Init, the
\* step is the callback
\* ------------------------------------------------------------------------
\* run_basic_checks(df)["columns"] of the uploaded datasets
UploadedDatasets ==
    {[df |-> DataFrame(<<Series("a", "Int64", {})>>, 2),
      columns |-> <<get_columns_stats("a", "Int64", 0, 2)>>],
     [df |-> DataFrame(<<Series("a", "Int64", {"UInt32"}), Series("b", "Float64", {})>>, 2),
      columns |-> <<get_columns_stats("a", "Int64", 1, 2),
                    get_columns_stats("b", "Float64", 0, 2)>>]}

\* the output directory is new, or holds the files of an earlier approval
ApprovalFiles ==
    {EmptyDict,
     [p \in {"output/data.parquet"} |-> ParquetFile(DataFrame(<<Series("a", "Int64", {})>>, 1))]}

InitApproval ==
    /\ \E uploaded \in UploadedDatasets :
          /\ df = uploaded.df
          /\ columns = uploaded.columns
    /\ naming_report \in NamingReports
    /\ type_report \in TypeReports
    /\ user_overrides \in UserOverrideSets \ {NoneObj}
    /\ clock \in Timestamps
    /\ files \in ApprovalFiles
    /\ dirs = {"."} \cup {Parent(p) : p \in DOMAIN files}
    /\ session_state = EmptyDict
    /\ approval = NotCalled
    /\ build_results = << >>
    /\ physical_schema = << >>
    /\ transform_result = NotCalled
    /\ ValidateIdle
    /\ create_args = NoneObj
    /\ create_result = NotCalled
    /\ export_calls = << >>
    /\ MapperIdle

\* one click on the approve button: the whole callback
HandleApproval ==
    /\ approval = NotCalled
    /\ \E io_parquet \in IoOutcomes, io_metadata \in IoOutcomes :
          LET run == handle_approval("data", user_overrides, df,
                                     [row_count |-> df.height, columns |-> columns],
                                     naming_report, type_report, "output", clock,
                                     session_state, files, dirs, io_parquet, io_metadata)
          IN  /\ approval' = Return(run)
              /\ session_state' = run.session_state
              /\ files' = run.files
              /\ dirs' = run.dirs
    /\ UNCHANGED <<build_inputs, build_results, transform_vars, validate_vars>>
    /\ UNCHANGED <<create_vars, export_calls, mapper_vars>>

NextApproval == HandleApproval

SpecApproval == InitApproval /\ [][NextApproval]_vars

\* ------------------------------------------------------------------------
\* Claims about handle_approval
\* ------------------------------------------------------------------------
ApprovalStep == approval = NotCalled /\ approval' # NotCalled

SuccessKeys ==
    {"contract", "parquet_path", "metadata_path", "transformation_log", "user_overrides"}

====
